---- MODULE Spec2Model ----
(***************************************************************************)
(* Track/clip arrangement model of the timeline editor (EditorPage and     *)
(* Timeline components).  The state is the ordered list of tracks, each    *)
(* holding an ordered sequence of clips; the actions are the handlers that *)
(* replace it through setTracks.                                           *)
(***************************************************************************)
EXTENDS Integers, Sequences, FiniteSets, TLC

\* ---------------------------------------------------------------- bounds
\* Number of clip identifiers crypto.randomUUID() is allowed to hand out.
MaxClips == 2
\* Number of track identifiers crypto.randomUUID() is allowed to hand out.
MaxNewTracks == 1
\* Largest number of tracks handleAddTrack is allowed to reach.
MaxTracks == 3
\* Largest number of files in one change event of the hidden file input.
MaxFiles == 1
\* Largest number of video metadata probes in flight.
MaxProbes == 1

\* Largest number of positional moves explored: a clip dropped again and
\* again on its own track lane moves ever further right, so the moves are
\* counted and cut off here.
MaxMoves == 2

\* ------------------------------------------------------- program constants
MinTotalFrames == 90
DefaultDuration == 90
FallbackDuration == 300
TextDuration == 90

\* ------------------------------------------------------------ input sets
\* video.duration * 30 rounded up, as reported by the metadata probe
\* (0 stands for an undetectable duration: NaN or 0 seconds).
DetectedDurations == {0, 45}

\* An optional value (undefined in the source) is the empty sequence, a
\* present value v is <<v>>.
None == <<>>
Some(v) == <<v>>

\* A scale factor is a rational number <<numerator, denominator>> in lowest
\* terms with a positive denominator: <<1, 2>> is 0.5.
\* The (scaleX, scaleY) pairs and the (x, y) pairs in composition pixels that
\* the preview overlay hands to onResize; it always passes numbers, and
\* always the selected clip's current duration.
OverlayScales == {<<Some(<<1, 2>>), Some(<<3, 2>>)>>}
OverlayPositions == {<<Some(10), Some(-20)>>}

\* Arguments on which handleClipResize itself is examined: durations below
\* and above the lower bound, and scale / position arguments that are
\* present, absent or half present.
ResizeDurations == {-5, 0, 120}
ScaleInputs ==
  {<<None, None>>, <<Some(<<1, 2>>), Some(<<3, 2>>)>>, <<Some(<<2, 1>>), None>>}
PositionInputs == {<<None, None>>, <<Some(10), Some(-20)>>}

\* The type handed to handleAddTrack by the "add track" button pressed.
AddTrackTypes == {"video"}

FileKinds == {"image", "video", "audio", "other"}

\* over.id when the drag ends over no droppable.
NoId == 0

\* crypto.randomUUID() never repeats a value: tracks draw theirs from
\* FirstTrackUuid upwards, clips from FirstClipUuid upwards, and the two
\* ranges are kept apart by the bounds.
FirstTrackUuid == 4
FirstClipUuid == 101
MaxId == FirstClipUuid + MaxClips - 1
MaxTrackUuid == FirstTrackUuid + MaxNewTracks - 1

VARIABLES tracks, nextId, nextTrackId, pendingTextClip, pendingFileUpload, probes,
          totalFrames, moves, resizing,
          dragging, dragEffect, lastCommit, strayUpdate, now,
          viewportDimensions,
          scrubbing, scrubEffect, currentFrame, lastSeek, playerFrame,
          isPlaying, resizeEffect, lastResize, mediaDimensions,
          isDeletingRef, deleteTimers, stalled

\* The move gesture of the preview overlay, and the scrub gesture of the
\* timeline with the playback position it drives.
dragVars == <<dragging, dragEffect, lastCommit>>
scrubVars == <<scrubbing, scrubEffect, currentFrame, lastSeek, playerFrame>>

\* The closure of the overlay's resize effect with the last scale it
\* committed and the overlay's mediaDimensions, and the delete button of the timeline's clips: the clips whose
\* isDeletingRef is set and the zero-delay timers not yet run.
resizeVars == <<resizeEffect, lastResize, mediaDimensions>>
deleteVars == <<isDeletingRef, deleteTimers>>

vars == <<tracks, nextId, nextTrackId, pendingTextClip, pendingFileUpload, probes,
          totalFrames, moves, resizing, dragVars, strayUpdate, now,
          viewportDimensions, scrubVars, isPlaying, resizeVars, deleteVars,
          stalled>>

\* performance.now() when the page is first used, in milliseconds.
StartTime == 1000

\* No gesture is in progress, the player is paused at frame 0 like the
\* playhead, no delete button is held and no metadata load has stalled.
PointersIdle ==
  /\ playerFrame = 0
  /\ isPlaying = FALSE
  /\ resizeEffect = None
  /\ lastResize = None
  /\ isDeletingRef = {}
  /\ deleteTimers = <<>>
  /\ stalled = <<>>
  /\ dragging = None
  /\ dragEffect = None
  /\ lastCommit = None
  /\ now = StartTime
  /\ strayUpdate = None
  /\ scrubbing = None
  /\ scrubEffect = None
  /\ currentFrame = 0
  /\ lastSeek = None

\* PointersIdle in an overlay that has not measured its rectangle and holds
\* no media dimensions.
GesturesIdle ==
  /\ PointersIdle
  /\ viewportDimensions = None
  /\ mediaDimensions = None

\* ------------------------------------------------------------- helpers
Range(s) == {s[i] : i \in 1..Len(s)}

Max2(a, b) == IF a >= b THEN a ELSE b
Min2(a, b) == IF a <= b THEN a ELSE b

\* Array.prototype.filter keeping the clips whose id differs from clipId.
RECURSIVE FilterOutId(_, _)
FilterOutId(s, id) ==
  IF s = <<>> THEN <<>>
  ELSE IF Head(s).id = id THEN FilterOutId(Tail(s), id)
       ELSE <<Head(s)>> \o FilterOutId(Tail(s), id)

\* Array.prototype.findIndex on ids, 1-based; 0 stands for -1.
RECURSIVE FindIndexFrom(_, _, _)
FindIndexFrom(s, id, i) ==
  IF i > Len(s) THEN 0
  ELSE IF s[i].id = id THEN i
       ELSE FindIndexFrom(s, id, i + 1)

FindIndex(s, id) == FindIndexFrom(s, id, 1)

\* tracks.find((t) => t.clips.some((c) => c.id === id)), as a 1-based index.
RECURSIVE FindTrackOfClipFrom(_, _, _)
FindTrackOfClipFrom(ts, id, i) ==
  IF i > Len(ts) THEN 0
  ELSE IF FindIndex(ts[i].clips, id) # 0 THEN i
       ELSE FindTrackOfClipFrom(ts, id, i + 1)

FindTrackOfClip(ts, id) == FindTrackOfClipFrom(ts, id, 1)

\* tracks.find((t) => t.type === type), as a 1-based index.
RECURSIVE FindTrackOfTypeFrom(_, _, _)
FindTrackOfTypeFrom(ts, type, i) ==
  IF i > Len(ts) THEN 0
  ELSE IF ts[i].type = type THEN i
       ELSE FindTrackOfTypeFrom(ts, type, i + 1)

\* A search that keeps the last track of the type instead of the first.
FindLastTrackOfType(ts, type) ==
  IF \E i \in 1..Len(ts) : ts[i].type = type
  THEN CHOOSE i \in 1..Len(ts) :
         /\ ts[i].type = type
         /\ \A k \in (i + 1)..Len(ts) : ts[k].type # type
  ELSE 0

FindTrackOfType(ts, type) == FindTrackOfTypeFrom(ts, type, 1)

\* A reorder that exchanges the two positions instead of moving one clip.
arraySwap(s, from, to) ==
  [i \in 1..Len(s) |->
     IF i = from THEN s[to] ELSE IF i = to THEN s[from] ELSE s[i]]

\* arrayMove of @dnd-kit/sortable: splice the element out of position from
\* and back in at position to (1-based).
arrayMove(s, from, to) ==
  LET elem == s[from]
      rest == SubSeq(s, 1, from - 1) \o SubSeq(s, from + 1, Len(s))
  IN SubSeq(rest, 1, to - 1) \o <<elem>> \o SubSeq(rest, to, Len(rest))

\* ------------------------------------------------------- clip construction
MakeClip(id, type, duration) ==
  [id |-> id, type |-> type, startFrame |-> 0, durationInFrames |-> duration,
   src |-> IF type = "text" THEN None ELSE Some("url"),
   text |-> IF type = "text" THEN Some("text") ELSE None,
   scaleX |-> None, scaleY |-> None, x |-> None, y |-> None]

\* durationInFrames || 300 of the metadata probe.
ProbedDuration(detected) == IF detected = 0 THEN FallbackDuration ELSE detected

\* The assets the Library can hold: images of 90 frames, audio of 300 frames,
\* video of the probed duration.
LibraryAssets ==
  {MakeClip(NoId, "image", DefaultDuration),
   MakeClip(NoId, "audio", FallbackDuration)}
  \cup {MakeClip(NoId, "video", ProbedDuration(d)) : d \in DetectedDurations}

\* ---------------------------------------------------------- totalFrames
\* The inner forEach over a track's clips, folded over the halves of the index
\* range so that long tracks do not nest deeply.
RECURSIVE MaxEndBetween(_, _, _)
MaxEndBetween(clips, lo, hi) ==
  IF lo = hi THEN clips[lo].startFrame + clips[lo].durationInFrames
  ELSE Max2(MaxEndBetween(clips, lo, (lo + hi) \div 2),
            MaxEndBetween(clips, (lo + hi) \div 2 + 1, hi))

MaxEndOfClips(clips, maxEnd) ==
  IF clips = <<>> THEN maxEnd
  ELSE Max2(maxEnd, MaxEndBetween(clips, 1, Len(clips)))

RECURSIVE MaxEndOfTracks(_, _)
MaxEndOfTracks(ts, maxEnd) ==
  IF ts = <<>> THEN maxEnd
  ELSE MaxEndOfTracks(Tail(ts), MaxEndOfClips(Head(ts).clips, maxEnd))

\* The timeline length without the 90 frame minimum.
TotalFramesNoMinimum(ts) == MaxEndOfTracks(ts, 0)

TotalFramesOf(ts) == Max2(MaxEndOfTracks(ts, 0), MinTotalFrames)

\* ----------------------------------------------- recalculateStartFrames
RECURSIVE SumDurations(_)
SumDurations(clips) ==
  IF clips = <<>> THEN 0
  ELSE Head(clips).durationInFrames + SumDurations(Tail(clips))

\* A recalculation whose running frame starts at the first clip's old
\* startFrame instead of 0.
RecalculateFromFirstStart(clips) ==
  [i \in 1..Len(clips) |->
     [clips[i] EXCEPT !.startFrame =
        clips[1].startFrame + SumDurations(SubSeq(clips, 1, i - 1))]]

\* A recalculation that leaves every startFrame as it finds it.
KeepStartFrames(clips) == clips

recalculateStartFrames(clips) ==
  [i \in 1..Len(clips) |->
     [clips[i] EXCEPT !.startFrame =
        IF i = 1 THEN 0 ELSE SumDurations(SubSeq(clips, 1, i - 1))]]

\* ------------------------------------------------------ addClipToTimeline
TrackTypeFor(clipType) == IF clipType = "image" THEN "video" ELSE clipType

\* A placement that falls back to the first track of the clip's type, or to
\* a new track, when the track it is addressed to does not exist.
addClipOrFallBack(prev, clip, trackId, clipId, trackUuid) ==
  LET clipToAdd == [clip EXCEPT !.id = clipId]
      m == IF trackId # None /\ \E i \in 1..Len(prev) : prev[i].id = trackId[1]
           THEN CHOOSE i \in 1..Len(prev) : prev[i].id = trackId[1]
           ELSE FindTrackOfType(prev, TrackTypeFor(clip.type))
  IN IF m # 0
     THEN [prev EXCEPT ![m].clips =
             recalculateStartFrames(Append(prev[m].clips, clipToAdd))]
     ELSE Append(prev, [id |-> trackUuid,
                        type |-> TrackTypeFor(clip.type),
                        clips |-> <<clipToAdd>>])

\* The setTracks updater of addClipToTimeline.  trackId is None or Some(id);
\* clipId and trackUuid are the two identifiers drawn from crypto.randomUUID.
addClipToTimeline(prev, clip, trackId, clipId, trackUuid) ==
  LET clipToAdd == [clip EXCEPT !.id = clipId]
  IN IF trackId # None
     THEN [i \in 1..Len(prev) |->
             IF prev[i].id = trackId[1]
             THEN [prev[i] EXCEPT !.clips =
                     recalculateStartFrames(Append(prev[i].clips, clipToAdd))]
             ELSE prev[i]]
     ELSE LET m == FindTrackOfType(prev, TrackTypeFor(clip.type))
          IN IF m # 0
             THEN [i \in 1..Len(prev) |->
                     IF prev[i].id = prev[m].id
                     THEN [prev[i] EXCEPT !.clips =
                             recalculateStartFrames(
                               Append(prev[m].clips, clipToAdd))]
                     ELSE prev[i]]
             ELSE Append(prev, [id |-> trackUuid,
                                type |-> TrackTypeFor(clip.type),
                                clips |-> <<clipToAdd>>])

\* Whether the updater reaches the new-track branch and draws a second uuid.
CreatesTrack(prev, clip, trackId) ==
  trackId = None /\ FindTrackOfType(prev, TrackTypeFor(clip.type)) = 0

\* useMemo(totalFrames, [tracks]): recomputed by the render that follows
\* every setTracks.
Rendered == totalFrames' = TotalFramesOf(tracks')

\* ---------------------------------------------------------------- Init
InitialTracks ==
  <<[id |-> 1, type |-> "text", clips |-> <<>>],
    [id |-> 2, type |-> "video", clips |-> <<>>],
    [id |-> 3, type |-> "audio", clips |-> <<>>]>>

Init ==
  /\ tracks = InitialTracks
  /\ nextId = FirstClipUuid
  /\ nextTrackId = FirstTrackUuid
  /\ pendingTextClip = None
  /\ pendingFileUpload = None
  /\ probes = <<>>
  /\ totalFrames = TotalFramesOf(InitialTracks)
  /\ moves = 0
  /\ resizing = None
  /\ GesturesIdle

\* No dialog is in front of the editor.  The text modal is a fixed full-screen
\* overlay (zIndex 1000) whose backdrop click cancels it, and the file chooser
\* is modal, so pointer gestures on the editor happen only while both are
\* closed.
Idle == pendingTextClip = None /\ pendingFileUpload = None

TrackIds == {tracks[i].id : i \in 1..Len(tracks)}
ClipIds == UNION {{c.id : c \in Range(tracks[i].clips)} : i \in 1..Len(tracks)}

TrackById(ts, id) == ts[FindIndex(ts, id)]
ClipById(ts, id) ==
  LET t == FindTrackOfClip(ts, id)
  IN ts[t].clips[FindIndex(ts[t].clips, id)]

\* ------------------------------------------------------- Timeline buttons
\* Timeline.handleAddTrack: append an empty track with a fresh id.
HandleAddTrack(type) ==
  /\ Idle
  /\ Len(tracks) < MaxTracks
  /\ nextTrackId <= MaxTrackUuid
  /\ tracks' = Append(tracks, [id |-> nextTrackId, type |-> type, clips |-> <<>>])
  /\ nextTrackId' = nextTrackId + 1
  /\ Rendered
  /\ UNCHANGED <<resizeVars, deleteVars, isPlaying, stalled, dragVars, now, viewportDimensions, strayUpdate, scrubVars, resizing, nextId, pendingTextClip, pendingFileUpload, probes, moves>>

\* Timeline.handleDeleteTrack: prev.filter(t => t.id !== trackId).
HandleDeleteTrack(trackId) ==
  /\ Idle
  /\ tracks' = FilterOutId(tracks, trackId)
  /\ Rendered
  /\ UNCHANGED <<resizeVars, deleteVars, isPlaying, stalled, dragVars, now, viewportDimensions, strayUpdate, scrubVars, resizing, nextId, pendingTextClip, pendingFileUpload, probes, moves, nextTrackId>>

\* Timeline.handleAddClipToTrack on the + button of a text track:
\* onOpenTextModal(trackId) stores the pending text clip and shows the modal.
OpenTextModal(trackId) ==
  /\ Idle
  /\ TrackById(tracks, trackId).type = "text"
  /\ pendingTextClip' = Some(Some(trackId))
  /\ UNCHANGED <<resizeVars, deleteVars, isPlaying, stalled, dragVars, now, viewportDimensions, strayUpdate, scrubVars, resizing, tracks, nextId, pendingFileUpload, probes, totalFrames, moves, nextTrackId>>

\* EditorPage.handleTextConfirm: a 90-frame text clip goes to the pending
\* track (or to the first text track when no track id is pending).
HandleTextConfirm ==
  /\ pendingTextClip # None
  /\ nextId <= MaxId
  /\ nextTrackId + (IF CreatesTrack(tracks, MakeClip(NoId, "text", TextDuration),
                                    pendingTextClip[1]) THEN 1 ELSE 0)
       <= MaxTrackUuid + 1
  /\ tracks' = addClipToTimeline(tracks, MakeClip(NoId, "text", TextDuration),
                                 pendingTextClip[1], nextId, nextTrackId)
  /\ nextId' = nextId + 1
  /\ nextTrackId' = nextTrackId
       + (IF CreatesTrack(tracks, MakeClip(NoId, "text", TextDuration),
                          pendingTextClip[1]) THEN 1 ELSE 0)
  /\ pendingTextClip' = None
  /\ Rendered
  /\ UNCHANGED <<resizeVars, deleteVars, isPlaying, stalled, dragVars, now, viewportDimensions, strayUpdate, scrubVars, resizing, pendingFileUpload, probes, moves>>

\* EditorPage.handleTextCancel.
HandleTextCancel ==
  /\ pendingTextClip # None
  /\ pendingTextClip' = None
  /\ UNCHANGED <<resizeVars, deleteVars, isPlaying, stalled, dragVars, now, viewportDimensions, strayUpdate, scrubVars, resizing, tracks, nextId, pendingFileUpload, probes, totalFrames, moves, nextTrackId>>

\* Timeline.handleAddClipToTrack on the + button of a video or audio track:
\* EditorPage.handleOpenFileUpload(trackId, trackType).
HandleOpenFileUpload(trackId) ==
  /\ Idle
  /\ TrackById(tracks, trackId).type \in {"video", "audio"}
  /\ pendingFileUpload' =
       Some([trackId |-> trackId, trackType |-> TrackById(tracks, trackId).type])
  /\ UNCHANGED <<resizeVars, deleteVars, isPlaying, stalled, dragVars, now, viewportDimensions, strayUpdate, scrubVars, resizing, tracks, nextId, pendingTextClip, probes, totalFrames, moves, nextTrackId>>

\* ------------------------------------------------------- handleFileUpload
\* The forEach over e.target.files: images and audio are placed at once on a
\* track of the pending type, a video starts a metadata probe that places
\* the clip later.  st is [ts, id, probes].
RECURSIVE ProcessFiles(_, _, _, _)
ProcessFiles(files, st, trackId, trackType) ==
  IF files = <<>> THEN st
  ELSE LET f == Head(files)
           next ==
             IF f = "image" /\ trackType = "video"
             THEN [st EXCEPT
                     !.ts = addClipToTimeline(st.ts,
                              MakeClip(NoId, "image", DefaultDuration),
                              Some(trackId), st.id, NoId),
                     !.id = st.id + 1]
             ELSE IF f = "video" /\ trackType = "video"
             THEN [st EXCEPT !.probes = Append(st.probes, trackId)]
             ELSE IF f = "audio" /\ trackType = "audio"
             THEN [st EXCEPT
                     !.ts = addClipToTimeline(st.ts,
                              MakeClip(NoId, "audio", FallbackDuration),
                              Some(trackId), st.id, NoId),
                     !.id = st.id + 1]
             ELSE st
       IN ProcessFiles(Tail(files), next, trackId, trackType)

FileLists == UNION {[1..n -> FileKinds] : n \in 1..MaxFiles}

HandleFileUpload(files) ==
  /\ pendingFileUpload # None
  /\ LET r == ProcessFiles(files, [ts |-> tracks, id |-> nextId, probes |-> probes],
                           pendingFileUpload[1].trackId,
                           pendingFileUpload[1].trackType)
     IN /\ r.id <= MaxId + 1
        /\ Len(r.probes) <= MaxProbes
        /\ tracks' = r.ts
        /\ nextId' = r.id
        /\ probes' = r.probes
  /\ pendingFileUpload' = None
  /\ Rendered
  /\ UNCHANGED <<resizeVars, deleteVars, isPlaying, stalled, dragVars, now, viewportDimensions, strayUpdate, scrubVars, resizing, pendingTextClip, moves, nextTrackId>>

\* The file chooser is dismissed without a change event.  The stored
\* pendingFileUpload is then never read again (only handleFileUpload reads
\* it, and the next handleOpenFileUpload overwrites it first), which is
\* modelled by forgetting it.
FileDialogCancel ==
  /\ pendingFileUpload # None
  /\ pendingFileUpload' = None
  /\ UNCHANGED <<resizeVars, deleteVars, isPlaying, stalled, dragVars, now, viewportDimensions, strayUpdate, scrubVars, resizing, tracks, nextId, pendingTextClip, probes, totalFrames, moves, nextTrackId>>

RemoveAt(s, i) == SubSeq(s, 1, i - 1) \o SubSeq(s, i + 1, Len(s))

\* video.onloadedmetadata of a probe started by handleFileUpload.
OnLoadedMetadata(i, detected) ==
  /\ nextId <= MaxId
  /\ tracks' = addClipToTimeline(tracks,
                  MakeClip(NoId, "video", ProbedDuration(detected)),
                  Some(probes[i]), nextId, NoId)
  /\ nextId' = nextId + 1
  /\ probes' = RemoveAt(probes, i)
  /\ Rendered
  /\ UNCHANGED <<resizeVars, deleteVars, isPlaying, stalled, dragVars, now, viewportDimensions, strayUpdate, scrubVars, resizing, pendingTextClip, pendingFileUpload, moves, nextTrackId>>

\* video.onerror of a probe started by handleFileUpload.
OnError(i) ==
  /\ nextId <= MaxId
  /\ tracks' = addClipToTimeline(tracks,
                  MakeClip(NoId, "video", FallbackDuration),
                  Some(probes[i]), nextId, NoId)
  /\ nextId' = nextId + 1
  /\ probes' = RemoveAt(probes, i)
  /\ Rendered
  /\ UNCHANGED <<resizeVars, deleteVars, isPlaying, stalled, dragVars, now, viewportDimensions, strayUpdate, scrubVars, resizing, pendingTextClip, pendingFileUpload, moves, nextTrackId>>

\* EditorPage.handleAddClipToTimeline as handed to the Timeline
\* (onAddClipFromLibrary: (clip) => void): no track id.
HandleAddClipToTimeline(asset) ==
  /\ Idle
  /\ nextId <= MaxId
  /\ nextTrackId + (IF CreatesTrack(tracks, asset, None) THEN 1 ELSE 0)
       <= MaxTrackUuid + 1
  /\ tracks' = addClipToTimeline(tracks, asset, None, nextId, nextTrackId)
  /\ nextId' = nextId + 1
  /\ nextTrackId' = nextTrackId
       + (IF CreatesTrack(tracks, asset, None) THEN 1 ELSE 0)
  /\ Rendered
  /\ UNCHANGED <<resizeVars, deleteVars, isPlaying, stalled, dragVars, now, viewportDimensions, strayUpdate, scrubVars, resizing, pendingTextClip, pendingFileUpload, probes, moves>>

\* ----------------------------------------------------------- handleDragEnd
\* The four accepted (asset type, track type) pairs of the library branch.
\* A library drop without the compatibility check.
AssetUnchecked(assetType, trackType) == TRUE

AssetCompatible(assetType, trackType) ==
  \/ assetType = "image" /\ trackType = "video"
  \/ assetType = "video" /\ trackType = "video"
  \/ assetType = "audio" /\ trackType = "audio"
  \/ assetType = "text" /\ trackType = "text"

\* handleDragEnd with a library asset as active: placed on the track lane it
\* is dropped on when the types are compatible.
DragEndAssetPlaces(ts, asset, overId) ==
  /\ overId # NoId
  /\ FindIndex(ts, overId) # 0
  /\ AssetCompatible(asset.type, TrackById(ts, overId).type)

DragEndAssetResult(ts, asset, overId, clipId) ==
  IF DragEndAssetPlaces(ts, asset, overId)
  THEN addClipToTimeline(ts, asset, Some(overId), clipId, NoId)
  ELSE ts

DragEndAsset(asset, overId) ==
  /\ Idle
  /\ nextId + (IF DragEndAssetPlaces(tracks, asset, overId) THEN 1 ELSE 0)
       <= MaxId + 1
  /\ tracks' = DragEndAssetResult(tracks, asset, overId, nextId)
  /\ nextId' = nextId
       + (IF DragEndAssetPlaces(tracks, asset, overId) THEN 1 ELSE 0)
  /\ Rendered
  /\ UNCHANGED <<resizeVars, deleteVars, isPlaying, stalled, dragVars, now, viewportDimensions, strayUpdate, scrubVars, resizing, pendingTextClip, pendingFileUpload, probes, moves, nextTrackId>>

\* handleDragEnd with a track as active: arrayMove of the track list when it
\* is dropped on another track.
DragEndTrackResult(ts, activeId, overId) ==
  LET oldIndex == FindIndex(ts, activeId)
      newIndex == FindIndex(ts, overId)
  IN IF overId # NoId /\ newIndex # 0 /\ activeId # overId
        /\ oldIndex # newIndex /\ oldIndex # 0
     THEN arrayMove(ts, oldIndex, newIndex)
     ELSE ts

DragEndTrack(activeId, overId) ==
  /\ Idle
  /\ tracks' = DragEndTrackResult(tracks, activeId, overId)
  /\ Rendered
  /\ UNCHANGED <<resizeVars, deleteVars, isPlaying, stalled, dragVars, now, viewportDimensions, strayUpdate, scrubVars, resizing, nextId, pendingTextClip, pendingFileUpload, probes, moves, nextTrackId>>

\* Math.max(...clips.map(c => (c.startFrame || 0) + c.durationInFrames)),
\* or 0 for an empty list.
RECURSIVE MaxEndFrame(_)
MaxEndFrame(clips) ==
  IF clips = <<>> THEN 0
  ELSE IF Len(clips) = 1 THEN clips[1].startFrame + clips[1].durationInFrames
  ELSE Max2(clips[1].startFrame + clips[1].durationInFrames,
            MaxEndFrame(Tail(clips)))

\* The source as the earlier revision left it: filtered and recompacted.
SourceRecalculated(clips, activeId) ==
  recalculateStartFrames(FilterOutId(clips, activeId))

\* A source that keeps the moved clip.
SourceKeepsClip(clips, activeId) == clips

\* The clips left on the source track once the moved clip is filtered out.
SourceAfterMove(clips, activeId) == FilterOutId(clips, activeId)

\* A drop frame taken from the summed durations instead of the largest end.
DropFrameBySum(remainingClips) == SumDurations(remainingClips)

\* A move that drops the clip at the first frame of the destination track.
DropFrameAtZero(remainingClips) == 0

\* The startFrame the moved clip gets on the destination track.
DropFrame(remainingClips) ==
  IF Len(remainingClips) > 0 THEN MaxEndFrame(remainingClips) ELSE 0

\* A move that recompacts the destination after appending the clip.
MoveClipRecalculated(prev, sourceId, targetId, clip) ==
  LET removed == [i \in 1..Len(prev) |->
                    IF prev[i].id = sourceId
                    THEN [prev[i] EXCEPT
                            !.clips = FilterOutId(prev[i].clips, clip.id)]
                    ELSE prev[i]]
  IN [i \in 1..Len(removed) |->
        IF removed[i].id = targetId
        THEN [removed[i] EXCEPT !.clips =
                recalculateStartFrames(
                  Append(FilterOutId(removed[i].clips, clip.id), clip))]
        ELSE removed[i]]

\* The setTracks updater of a move: filter the clip out of the source, filter
\* it out of the target, append it at the end of the target.
MoveClip(prev, sourceId, targetId, clip) ==
  LET removed == [i \in 1..Len(prev) |->
                    IF prev[i].id = sourceId
                    THEN [prev[i] EXCEPT
                            !.clips = SourceAfterMove(prev[i].clips, clip.id)]
                    ELSE prev[i]]
  IN [i \in 1..Len(removed) |->
        IF removed[i].id = targetId
        THEN LET remainingClips == FilterOutId(removed[i].clips, clip.id)
                 clipToMove ==
                   [clip EXCEPT !.startFrame = DropFrame(remainingClips)]
             IN [removed[i] EXCEPT !.clips = Append(remainingClips, clipToMove)]
        ELSE removed[i]]

\* A clip move without the compatibility check.
MoveUnchecked(clipType, trackType) == TRUE

\* targetTrack.type === clipTypeForMatching
MoveCompatible(clipType, trackType) == trackType = TrackTypeFor(clipType)

\* handleDragEnd with a timeline clip as active.
DragEndClipResult(ts, activeId, overId) ==
  LET s == FindTrackOfClip(ts, activeId)
  IN IF overId = NoId \/ s = 0 THEN ts
     ELSE
       LET sourceTrack == ts[s]
           clip == sourceTrack.clips[FindIndex(sourceTrack.clips, activeId)]
           oldIndex == FindIndex(sourceTrack.clips, activeId)
           newIndex == FindIndex(sourceTrack.clips, overId)
           t == FindIndex(ts, overId)
           o == FindTrackOfClip(ts, overId)
       IN IF newIndex # 0
          THEN \* dropped on a clip of the same track: reorder
               IF oldIndex # newIndex
               THEN [i \in 1..Len(ts) |->
                       IF ts[i].id = sourceTrack.id
                       THEN [ts[i] EXCEPT !.clips =
                               recalculateStartFrames(
                                 arrayMove(ts[i].clips, oldIndex, newIndex))]
                       ELSE ts[i]]
               ELSE ts
          ELSE IF t # 0
          THEN \* dropped on a track lane
               IF MoveCompatible(clip.type, ts[t].type)
               THEN MoveClip(ts, sourceTrack.id, ts[t].id, clip)
               ELSE ts
          ELSE IF o # 0 /\ ts[o].id # sourceTrack.id
          THEN \* dropped on a clip of another track
               IF MoveCompatible(clip.type, ts[o].type)
               THEN MoveClip(ts, sourceTrack.id, ts[o].id, clip)
               ELSE ts
          ELSE ts

\* Whether handleDragEnd reaches one of its two move updaters.
IsMove(ts, activeId, overId) ==
  LET s == FindTrackOfClip(ts, activeId)
      t == FindIndex(ts, overId)
      o == FindTrackOfClip(ts, overId)
  IN /\ overId # NoId
     /\ s # 0
     /\ FindIndex(ts[s].clips, overId) = 0
     /\ IF t # 0 THEN MoveCompatible(ClipById(ts, activeId).type, ts[t].type)
        ELSE /\ o # 0
             /\ MoveCompatible(ClipById(ts, activeId).type, ts[o].type)

DragEndClip(activeId, overId) ==
  /\ Idle
  /\ tracks' = DragEndClipResult(tracks, activeId, overId)
  /\ moves' = moves + (IF IsMove(tracks, activeId, overId) THEN 1 ELSE 0)
  /\ moves' <= MaxMoves
  /\ Rendered
  /\ UNCHANGED <<resizeVars, deleteVars, isPlaying, stalled, dragVars, now, viewportDimensions, strayUpdate, scrubVars, resizing, nextId, pendingTextClip, pendingFileUpload, probes, nextTrackId>>

\* -------------------------------------------------------- handleClipResize
\* A resize that stores the new duration as given.
ResizedClipUnclamped(clip, newDuration, scale, pos) ==
  [clip EXCEPT
     !.durationInFrames = newDuration,
     !.scaleX = IF scale[1] # None THEN scale[1] ELSE @,
     !.scaleY = IF scale[2] # None THEN scale[2] ELSE @]

\* The clip handleClipResize stores for (newDurationInFrames, newScaleX,
\* newScaleY, newX, newY): the handler has no position parameters, so the
\* fifth and sixth argument of an onResize call are dropped.
ResizedClip(clip, newDuration, scale, pos) ==
  [clip EXCEPT
     !.durationInFrames = Max2(1, newDuration),
     !.scaleX = IF scale[1] # None THEN scale[1] ELSE @,
     !.scaleY = IF scale[2] # None THEN scale[2] ELSE @]

handleClipResize(prev, clipId, newDuration, scale, pos) ==
  [i \in 1..Len(prev) |->
     LET clipIndex == FindIndex(prev[i].clips, clipId)
     IN IF clipIndex = 0 THEN prev[i]
        ELSE [prev[i] EXCEPT !.clips =
                recalculateStartFrames(
                  [prev[i].clips EXCEPT ![clipIndex] =
                     ResizedClip(prev[i].clips[clipIndex], newDuration,
                                 scale, pos)])]]

HandleClipResize(clipId, newDuration, scale, pos) ==
  /\ Idle
  /\ tracks' = handleClipResize(tracks, clipId, newDuration, scale, pos)
  /\ Rendered
  /\ UNCHANGED <<resizeVars, deleteVars, isPlaying, stalled, dragVars, now, viewportDimensions, strayUpdate, scrubVars, resizing, nextId, pendingTextClip, pendingFileUpload, probes, moves, nextTrackId>>

\* ------------------------------------------------------------------ Next
DropTargets == TrackIds \cup ClipIds \cup {NoId}

Next ==
  \/ \E type \in AddTrackTypes : HandleAddTrack(type)
  \/ \E id \in TrackIds : HandleDeleteTrack(id)
  \/ \E id \in TrackIds : OpenTextModal(id)
  \/ HandleTextConfirm
  \/ HandleTextCancel
  \/ \E id \in TrackIds : HandleOpenFileUpload(id)
  \/ \E files \in FileLists : HandleFileUpload(files)
  \/ FileDialogCancel
  \/ \E i \in 1..Len(probes), d \in DetectedDurations : OnLoadedMetadata(i, d)
  \/ \E i \in 1..Len(probes) : OnError(i)
  \/ \E asset \in LibraryAssets : HandleAddClipToTimeline(asset)
  \/ \E asset \in LibraryAssets, over \in DropTargets : DragEndAsset(asset, over)
  \/ \E active \in ClipIds, over \in DropTargets : DragEndClip(active, over)
  \/ \E id \in ClipIds, scale \in OverlayScales, pos \in OverlayPositions :
       HandleClipResize(id, ClipById(tracks, id).durationInFrames, scale, pos)

Spec == Init /\ [][Next]_vars

\* The arrangement together with the reordering of whole tracks.
NextWithTracks ==
  \/ Next
  \/ \E active \in TrackIds, over \in DropTargets : DragEndTrack(active, over)

SpecTracks == Init /\ [][NextWithTracks]_vars

\* ------------------------------------------------------------- deleteClip
\* A removal by clips.splice(findIndex(...), 1): on a track that does not
\* hold the clip the index is -1 and splice removes the track's last clip.
deleteClipBySplice(prev, clipId) ==
  [i \in 1..Len(prev) |->
     [prev[i] EXCEPT !.clips =
        recalculateStartFrames(
          IF FindIndex(prev[i].clips, clipId) = 0
          THEN SubSeq(prev[i].clips, 1, Len(prev[i].clips) - 1)
          ELSE FilterOutId(prev[i].clips, clipId))]]

\* The handler behind onDeleteClip: TrackLane and SortableClip call it with
\* the clip's id, and it removes the clip from its track's sequence and
\* recompacts the remaining siblings.
deleteClip(prev, clipId) ==
  [i \in 1..Len(prev) |->
     IF FindIndex(prev[i].clips, clipId) = 0 THEN prev[i]
     ELSE [prev[i] EXCEPT !.clips =
             recalculateStartFrames(FilterOutId(prev[i].clips, clipId))]]

\* Every clip id handed out so far: a delete button can fire for a clip that
\* is already gone.
HandedOutClipIds == FirstClipUuid..(nextId - 1)

DeleteClip(clipId) ==
  /\ Idle
  /\ tracks' = deleteClip(tracks, clipId)
  /\ Rendered
  /\ UNCHANGED <<resizeVars, deleteVars, isPlaying, stalled, dragVars, now, viewportDimensions, strayUpdate, scrubVars, resizing, nextId, pendingTextClip, pendingFileUpload, probes, moves,
                 nextTrackId>>

\* Placing, reordering and moving clips, adding and deleting tracks, together
\* with deleting clips.
NextDelete ==
  \/ \E type \in AddTrackTypes : HandleAddTrack(type)
  \/ \E id \in TrackIds : HandleDeleteTrack(id)
  \/ \E asset \in LibraryAssets : HandleAddClipToTimeline(asset)
  \/ \E asset \in LibraryAssets, over \in DropTargets : DragEndAsset(asset, over)
  \/ \E active \in ClipIds, over \in DropTargets : DragEndClip(active, over)
  \/ \E id \in HandedOutClipIds : DeleteClip(id)

SpecDelete == Init /\ [][NextDelete]_vars

\* Placement and resizing with every argument handleClipResize accepts: a
\* new duration below, at and above the minimum, and scale and position
\* arguments given or left out.
NextResize ==
  \/ \E id \in TrackIds : OpenTextModal(id)
  \/ HandleTextConfirm
  \/ HandleTextCancel
  \/ \E id \in TrackIds : HandleOpenFileUpload(id)
  \/ \E files \in FileLists : HandleFileUpload(files)
  \/ FileDialogCancel
  \/ \E i \in 1..Len(probes), d \in DetectedDurations : OnLoadedMetadata(i, d)
  \/ \E i \in 1..Len(probes) : OnError(i)
  \/ \E asset \in LibraryAssets : HandleAddClipToTimeline(asset)
  \/ \E id \in ClipIds, d \in ResizeDurations, scale \in ScaleInputs,
        pos \in PositionInputs : HandleClipResize(id, d, scale, pos)

SpecResize == Init /\ [][NextResize]_vars

\* ------------------------------------------------- reordering longer tracks
\* The video track after ReorderClips placements from the library and from
\* uploads: image and video clips with the durations placement gives them,
\* compacted by addClipToTimeline.
ReorderClips == 3
ReorderDurations == {45, DefaultDuration, FallbackDuration}

InitReorder ==
  /\ \E types \in [1..ReorderClips -> {"image", "video"}],
        durs \in [1..ReorderClips -> ReorderDurations] :
       tracks = [InitialTracks EXCEPT ![2].clips =
                   recalculateStartFrames(
                     [j \in 1..ReorderClips |->
                        MakeClip(FirstClipUuid + j - 1, types[j],
                                 IF types[j] = "image" THEN DefaultDuration
                                 ELSE durs[j])])]
  /\ nextId = FirstClipUuid + ReorderClips
  /\ nextTrackId = FirstTrackUuid
  /\ pendingTextClip = None
  /\ pendingFileUpload = None
  /\ probes = <<>>
  /\ totalFrames = TotalFramesOf(tracks)
  /\ moves = 0
  /\ resizing = None
  /\ GesturesIdle

\* Clip drags only: reorders within the track and drops on the track lanes.
NextReorder ==
  \E active \in ClipIds, over \in DropTargets : DragEndClip(active, over)

SpecReorder == InitReorder /\ [][NextReorder]_vars

\* ----------------------------------------------------------- stacking order
\* TimelineComposition and the overlay's handleClick:
\* (tracks.length - 1 - trackIndex) * 1000 + clipIndex, both indexes 0-based
\* in the source and 1-based here.
TrackStride == 1000

clipZIndex(ts, trackIndex, clipIndex) ==
  (Len(ts) - trackIndex) * TrackStride + (clipIndex - 1)

\* ------------------------------------------------------------ handleClick
\* The overlay's composition size.
compositionWidth == 1280
compositionHeight == 720

\* clip.scaleX ?? 1, and clip.x ?? 0 in composition pixels.
ScaleOr1(opt) == IF opt = None THEN <<1, 1>> ELSE opt[1]
OffsetOr0(opt) == IF opt = None THEN 0 ELSE opt[1]

\* currentFrame >= startFrame && currentFrame < endFrame, for every clip of
\* every track: the slots of visibleClips.
VisibleSlots(ts, frame) ==
  UNION {{<<i, j>> : j \in {k \in 1..Len(ts[i].clips) :
                              /\ frame >= ts[i].clips[k].startFrame
                              /\ frame < ts[i].clips[k].startFrame
                                           + ts[i].clips[k].durationInFrames}}
         : i \in 1..Len(ts)}

\* visibleClips.sort((a, b) => bZ - aZ): higher stacking value first; the
\* sort is stable, so equal values keep the order of the two forEach loops.
SortsBefore(ts, s1, s2) ==
  \/ clipZIndex(ts, s1[1], s1[2]) > clipZIndex(ts, s2[1], s2[2])
  \/ /\ clipZIndex(ts, s1[1], s1[2]) = clipZIndex(ts, s2[1], s2[2])
     /\ (s1[1] < s2[1] \/ (s1[1] = s2[1] /\ s1[2] < s2[2]))

\* The containment test of handleClick on a box of size width x height
\* (composition pixels) scaled by the clip's scale and centred on the
\* composition centre plus the clip's offset: clipLeft = W/2 + x -
\* width*scaleX/2, multiplied through by twice the scale's denominator.
BoxContains(clip, point, width, height) ==
  LET sx == ScaleOr1(clip.scaleX)
      sy == ScaleOr1(clip.scaleY)
      left == sx[2] * compositionWidth + 2 * sx[2] * OffsetOr0(clip.x)
                - width * sx[1]
      top == sy[2] * compositionHeight + 2 * sy[2] * OffsetOr0(clip.y)
               - height * sy[1]
  IN /\ 2 * sx[2] * point[1] >= left
     /\ 2 * sx[2] * point[1] <= left + 2 * width * sx[1]
     /\ 2 * sy[2] * point[2] >= top
     /\ 2 * sy[2] * point[2] <= top + 2 * height * sy[1]

\* scaledWidth = compositionWidth * clipScaleX in handleClick.
ClickContains(clip, point) ==
  BoxContains(clip, point, compositionWidth, compositionHeight)

\* handleClick: the id handed to onClipSelect for a click at point (in
\* composition space) at frame; NoId stands for null.
handleClick(ts, frame, point) ==
  LET hits == {sl \in VisibleSlots(ts, frame) :
                 ClickContains(ts[sl[1]].clips[sl[2]], point)}
  IN IF hits = {} THEN NoId
     ELSE LET top == CHOOSE sl \in hits :
                       \A other \in hits \ {sl} : SortsBefore(ts, sl, other)
          IN ts[top[1]].clips[top[2]].id

\* getDisplayedDimensions: the media size fitted into the composition with
\* objectFit: contain.
getDisplayedDimensions(media) ==
  IF media[1] * compositionHeight > compositionWidth * media[2]
  THEN <<compositionWidth, (compositionWidth * media[2]) \div media[1]>>
  ELSE <<(compositionHeight * media[1]) \div media[2], compositionHeight>>

\* Natural sizes of the media behind image and video clips (naturalWidth x
\* naturalHeight): of the composition's shape, square, and wider.
MediaSizes == {<<1280, 720>>, <<720, 720>>, <<1280, 360>>}

\* Frames and composition-space points of the clicks examined.
ClickFrames == {0, 89, 90, 300}
ClickPoints == {<<640, 360>>, <<100, 360>>, <<1000, 700>>}

\* ------------------------------------------------------ TimelineComposition
\* The filter of allClips: video and audio clips need a src, text clips a text.
Renderable(clip) ==
  /\ ~(clip.type = "video" /\ clip.src = None)
  /\ ~(clip.type = "audio" /\ clip.src = None)
  /\ ~(clip.type = "text" /\ clip.text = None)

\* clipIndex of allClips: the position (from 0) of the clip among its track's
\* renderable clips after the stable sort by startFrame.
renderIndex(clips, j) ==
  Cardinality({k \in 1..Len(clips) :
                 /\ Renderable(clips[k])
                 /\ \/ clips[k].startFrame < clips[j].startFrame
                    \/ clips[k].startFrame = clips[j].startFrame /\ k < j})

\* zIndex of the clip's AbsoluteFill.
renderZIndex(ts, i, j) ==
  (Len(ts) - i) * TrackStride + renderIndex(ts[i].clips, j)

\* The slots whose Sequence is mounted at frame: renderable clips with
\* from <= frame < from + durationInFrames.
DrawnSlots(ts, frame) ==
  {sl \in VisibleSlots(ts, frame) : Renderable(ts[sl[1]].clips[sl[2]])}

\* CSS stacking of two drawn clips: the higher zIndex is painted above, and of
\* two equal zIndex values the element later in allClips is painted above.
PaintedAbove(ts, s1, s2) ==
  \/ renderZIndex(ts, s1[1], s1[2]) > renderZIndex(ts, s2[1], s2[2])
  \/ /\ renderZIndex(ts, s1[1], s1[2]) = renderZIndex(ts, s2[1], s2[2])
     /\ \/ s1[1] > s2[1]
        \/ /\ s1[1] = s2[1]
           /\ renderIndex(ts[s1[1]].clips, s1[2])
                > renderIndex(ts[s2[1]].clips, s2[2])

\* The clip painted on top at point: its AbsoluteFill is the composition box
\* under translate(x, y) scale(scaleX, scaleY) about the centre.
topDrawn(ts, frame, point) ==
  LET under == {sl \in DrawnSlots(ts, frame) :
                  BoxContains(ts[sl[1]].clips[sl[2]], point,
                              compositionWidth, compositionHeight)}
  IN IF under = {} THEN NoId
     ELSE LET top == CHOOSE sl \in under :
                       \A other \in under \ {sl} : PaintedAbove(ts, sl, other)
          IN ts[top[1]].clips[top[2]].id

\* Tracks as placement fills them when nothing limits the number of clips: a
\* video track of CrowdedTrackClips images placed from the library, or of
\* one or two, next to a text and an audio track with one clip or none.
CrowdedTrackClips == 1001

ImageRun(n) ==
  [j \in 1..n |->
     [MakeClip(FirstClipUuid + 1 + j, "image", DefaultDuration)
        EXCEPT !.startFrame = (j - 1) * DefaultDuration]]

\* A video as long as the whole run of images on the crowded track.
LongVideoDuration == CrowdedTrackClips * DefaultDuration

\* The same arrangement after the audio track was deleted and a second video
\* track was added, dragged above the first one and given one long video.
CrowdedBelowLongVideo(n, t) ==
  <<[InitialTracks[1] EXCEPT
       !.clips = IF t = 1
                 THEN <<MakeClip(FirstClipUuid, "text", TextDuration)>>
                 ELSE <<>>],
    [id |-> FirstTrackUuid, type |-> "video",
     clips |-> <<MakeClip(FirstClipUuid + 1, "video", LongVideoDuration)>>],
    [InitialTracks[2] EXCEPT !.clips = ImageRun(n)]>>

InitCrowded ==
  /\ \E n \in {1, 2, CrowdedTrackClips}, t \in 0..1, a \in 0..1 :
       /\ \/ /\ tracks =
                  [InitialTracks EXCEPT
                     ![1].clips =
                       IF t = 1
                       THEN <<MakeClip(FirstClipUuid, "text", TextDuration)>>
                       ELSE <<>>,
                     ![2].clips = ImageRun(n),
                     ![3].clips =
                       IF a = 1
                       THEN <<MakeClip(FirstClipUuid + 1, "audio",
                                       FallbackDuration)>>
                       ELSE <<>>]
             /\ nextTrackId = FirstTrackUuid
          \/ /\ a = 1
             /\ tracks = CrowdedBelowLongVideo(n, t)
             /\ nextTrackId = FirstTrackUuid + 1
       /\ nextId = FirstClipUuid + 2 + n
  /\ pendingTextClip = None
  /\ pendingFileUpload = None
  /\ probes = <<>>
  /\ totalFrames = TotalFramesOf(tracks)
  /\ moves = 0
  /\ resizing = None
  /\ GesturesIdle

\* Adding, deleting and reordering whole tracks.
NextCrowded ==
  \/ \E type \in AddTrackTypes : HandleAddTrack(type)
  \/ \E id \in TrackIds : HandleDeleteTrack(id)
  \/ \E active \in TrackIds, over \in TrackIds \cup {NoId} :
       DragEndTrack(active, over)

SpecCrowded == InitCrowded /\ [][NextCrowded]_vars

\* ------------------------------------------------- rational arithmetic
\* Scale factors are computed exactly: <<n, d>> stands for n / d.
Abs(n) == IF n < 0 THEN -n ELSE n

RECURSIVE GCD(_, _)
GCD(a, b) == IF b = 0 THEN a ELSE GCD(b, a % b)

Rat(n, d) ==
  LET g == GCD(Abs(n), Abs(d))
  IN IF d > 0 THEN <<n \div g, d \div g>> ELSE <<(-n) \div g, (-d) \div g>>

RatAdd(a, b) == Rat(a[1] * b[2] + b[1] * a[2], a[2] * b[2])
RatNeg(a) == <<-a[1], a[2]>>
RatMul(a, b) == Rat(a[1] * b[1], a[2] * b[2])
RatDiv(a, b) == Rat(a[1] * b[2], a[2] * b[1])
RatLess(a, b) == a[1] * b[2] < b[1] * a[2]
RatMax(a, b) == IF RatLess(a, b) THEN b ELSE a
RatMin(a, b) == IF RatLess(b, a) THEN b ELSE a
RatAbs(a) == <<Abs(a[1]), a[2]>>

\* ------------------------------------------------------ the resize gesture
\* The limits of Math.max(0.1, Math.min(3, v)).
MinScale == <<1, 10>>
MaxScale == <<3, 1>>

\* A clamp that halves what exceeds the upper limit.
halveAboveMax(v) ==
  IF RatLess(MaxScale, v) THEN RatMul(v, <<1, 2>>) ELSE RatMax(MinScale, v)

\* A clamp without the lower limit.
clampAboveOnly(v) == RatMin(MaxScale, v)

\* Math.max(0.1, Math.min(3, v)).
clampScale(v) == RatMax(MinScale, RatMin(MaxScale, v))

\* mediaDimensions is null until the selected clip's media has loaded, and
\* stays null for a clip without src.
MediaWider(media) ==
  media[1][1] * compositionHeight > compositionWidth * media[1][2]

displayedWidth(media) ==
  IF media = None THEN <<compositionWidth, 1>>
  ELSE IF MediaWider(media) THEN <<compositionWidth, 1>>
  ELSE Rat(compositionHeight * media[1][1], media[1][2])

\* A height that follows the width of the composition whatever the media's
\* aspect ratio is.
displayedHeightFitWidth(media) ==
  IF media = None THEN <<compositionHeight, 1>>
  ELSE Rat(compositionWidth * media[1][2], media[1][1])

displayedHeight(media) ==
  IF media = None THEN <<compositionHeight, 1>>
  ELSE IF MediaWider(media) THEN Rat(compositionWidth * media[1][2], media[1][1])
  ELSE <<compositionHeight, 1>>

\* (delta / displayed) * 2.
scaleDeltaOf(delta, displayed) ==
  RatMul(RatDiv(<<delta, 1>>, displayed), <<2, 1>>)

\* A horizontal resize that leaves scaleY as it was.
horizontalResizeFree(initialScaleX, initialScaleY, aspectRatio, scaleDelta) ==
  <<clampScale(RatAdd(initialScaleX, scaleDelta)), initialScaleY>>

\* The branch that changes scaleX and derives scaleY from it.
horizontalResize(initialScaleX, initialScaleY, aspectRatio, scaleDelta) ==
  LET newScaleX == clampScale(RatAdd(initialScaleX, scaleDelta))
      newScaleY == clampScale(RatDiv(newScaleX, aspectRatio))
  IN IF newScaleY = MaxScale \/ newScaleY = MinScale
     THEN <<clampScale(RatMul(newScaleY, aspectRatio)), newScaleY>>
     ELSE <<newScaleX, newScaleY>>

\* A vertical resize that leaves scaleX as it was.
verticalResizeFree(initialScaleX, initialScaleY, aspectRatio, scaleDelta) ==
  <<initialScaleX, clampScale(RatAdd(initialScaleY, scaleDelta))>>

\* The branch that changes scaleY and derives scaleX from it.
verticalResize(initialScaleX, initialScaleY, aspectRatio, scaleDelta) ==
  LET newScaleY == clampScale(RatAdd(initialScaleY, scaleDelta))
      newScaleX == clampScale(RatMul(newScaleY, aspectRatio))
  IN IF newScaleX = MaxScale \/ newScaleX = MinScale
     THEN <<newScaleX, clampScale(RatDiv(newScaleX, aspectRatio))>>
     ELSE <<newScaleX, newScaleY>>

ResizeHandles ==
  {"right", "left", "top", "bottom",
   "top-left", "top-right", "bottom-left", "bottom-right"}
SideHandles == {"right", "left", "top", "bottom"}

\* (delta / displayed) * 2 for a delta that is a fraction of a pixel.
scaleDeltaAt(delta, displayed) == RatMul(RatDiv(delta, displayed), <<2, 1>>)

\* handleMouseMove of the resize effect from deltaX, deltaY on: the
\* (newScaleX, newScaleY) handed to onResize when the pointer is deltaX,
\* deltaY composition pixels (exact fractions) away from the handle's
\* starting position.
newScaleAt(g, deltaX, deltaY, media) ==
  LET sdX == scaleDeltaAt(deltaX, displayedWidth(media))
      sdY == scaleDeltaAt(deltaY, displayedHeight(media))
      adjX == IF g.resizeHandle \in {"top-left", "bottom-left"}
              THEN RatNeg(sdX) ELSE sdX
      adjY == IF g.resizeHandle \in {"top-left", "top-right"}
              THEN RatNeg(sdY) ELSE sdY
  IN IF g.resizeHandle \in {"right", "left"}
     THEN horizontalResize(g.initialScaleX, g.initialScaleY, g.aspectRatio,
                           IF g.resizeHandle = "left" THEN RatNeg(sdX) ELSE sdX)
     ELSE IF g.resizeHandle \in {"top", "bottom"}
     THEN verticalResize(g.initialScaleX, g.initialScaleY, g.aspectRatio,
                         IF g.resizeHandle = "top" THEN RatNeg(sdY) ELSE sdY)
     ELSE IF RatLess(RatAbs(adjY), RatAbs(adjX))
     THEN horizontalResize(g.initialScaleX, g.initialScaleY, g.aspectRatio, adjX)
     ELSE verticalResize(g.initialScaleX, g.initialScaleY, g.aspectRatio, adjY)

\* The same for a pointer a whole number of composition pixels away.
handleMouseMove(g, deltaX, deltaY, media) ==
  newScaleAt(g, <<deltaX, 1>>, <<deltaY, 1>>, media)

\* What mediaDimensions can hold while the clip is selected.
MediaChoices(clip) ==
  IF clip.src = None THEN {None}
  ELSE IF clip.type \in {"image", "video"}
  THEN {None} \cup {Some(m) : m \in MediaSizes}
  ELSE {None, Some(<<compositionWidth, compositionHeight>>)}

\* ------------------------------------------------------- the move gesture
\* The closure of the drag effect as it is when the effect has just run for
\* the selected clip: lastUpdateTime = 0, pendingUpdate = null.  raf says
\* that rafIdRef holds a requested animation frame, orphaned that a requested
\* callback of this closure is no longer held by rafIdRef, and stale that a
\* dependency of the effect has changed, so that the next render runs the
\* effect's cleanup and the effect again.
FreshDragEffect(clipId) ==
  [clipId |-> clipId, lastUpdateTime |-> 0, pendingUpdate |-> None,
   raf |-> FALSE, orphaned |-> FALSE, stale |-> FALSE]

StaleAfterCommit(effect) ==
  IF effect = None THEN None ELSE Some([effect[1] EXCEPT !.stale = TRUE])

\* What the cleanup of a closure leaves requested: it cancels the frame that
\* rafIdRef holds and no other, so an orphaned callback stays with the
\* closure's pendingUpdate.
StrayAfterCleanup(effect) ==
  IF effect # None /\ effect[1].orphaned /\ effect[1].pendingUpdate # None
  THEN Some([clipId |-> effect[1].clipId, pos |-> effect[1].pendingUpdate[1]])
  ELSE strayUpdate

\* const updateThrottle = 16.
updateThrottle == 16

\* maxX = (compositionWidth - displayedWidth * scaleX) / 2, likewise maxY.
maxOffset(extent, displayed, scale) ==
  RatMul(RatAdd(<<extent, 1>>, RatNeg(RatMul(displayed, scale))), <<1, 2>>)

\* Math.max(-maxX, Math.min(maxX, v)).
clampOffset(bound, v) == RatMax(RatNeg(bound), RatMin(bound, v))

\* newX, newY of the drag effect's handleMouseMove for a pointer deltaX,
\* deltaY composition pixels away from where the drag started.
dragCandidate(clip, initialX, initialY, deltaX, deltaY, media) ==
  <<clampOffset(maxOffset(compositionWidth, displayedWidth(media),
                          ScaleOr1(clip.scaleX)),
                RatAdd(initialX, <<deltaX, 1>>)),
    clampOffset(maxOffset(compositionHeight, displayedHeight(media),
                          ScaleOr1(clip.scaleY)),
                RatAdd(initialY, <<deltaY, 1>>))>>

\* Commits of one move gesture are followed up to MaxCommits.
MaxCommits == 3

\* onResize as the drag effect calls it: the clip's duration and scale with
\* the position x, y; the call is noted in lastCommit with its time.
CommitPosition(clip, pos) ==
  /\ tracks' = handleClipResize(tracks, clip.id, clip.durationInFrames,
                  <<Some(ScaleOr1(clip.scaleX)), Some(ScaleOr1(clip.scaleY))>>,
                  <<Some(pos[1]), Some(pos[2])>>)
  /\ Rendered
  /\ lastCommit' = Some([clipId |-> clip.id, x |-> pos[1], y |-> pos[2],
                         at |-> now,
                         n |-> IF lastCommit = None THEN 1
                               ELSE lastCommit[1].n + 1])

CommitsSoFar == IF lastCommit = None THEN 0 ELSE lastCommit[1].n

\* handleDragStart: the mouse goes down on the selected clip's drag area.
\* The render that follows mounts the drag effect.
HandleDragStart(clipId) ==
  /\ Idle
  /\ resizing = None
  /\ LET clip == ClipById(tracks, clipId)
     IN dragging' = Some([clipId |-> clipId,
                          initialX |-> <<OffsetOr0(clip.x), 1>>,
                          initialY |-> <<OffsetOr0(clip.y), 1>>,
                          dragOffsetX |-> <<0, 1>>, dragOffsetY |-> <<0, 1>>])
  /\ IF dragEffect = None
     THEN /\ dragEffect' = Some(FreshDragEffect(clipId))
          /\ UNCHANGED strayUpdate
     ELSE IF dragEffect[1].stale
     THEN /\ dragEffect' = Some(FreshDragEffect(clipId))
          /\ strayUpdate' = StrayAfterCleanup(dragEffect)
     ELSE UNCHANGED <<dragEffect, strayUpdate>>
  /\ lastCommit' = None
  /\ UNCHANGED <<resizeVars, deleteVars, isPlaying, stalled, now, viewportDimensions, scrubVars, resizing, tracks, nextId,
                 nextTrackId, pendingTextClip, pendingFileUpload, probes,
                 totalFrames, moves>>

\* handleMouseMove of the drag effect: the visual offset follows the pointer,
\* and the position is committed at once when updateThrottle milliseconds
\* have passed since the closure's last commit, else left pending with an
\* animation frame requested unless rafIdRef holds one.  applyPendingUpdate
\* clears rafIdRef without cancelling the frame it held.
DragMouseMove(deltaX, deltaY) ==
  /\ dragging # None
  /\ dragEffect # None
  /\ CommitsSoFar < MaxCommits
  /\ LET g == dragging[1]
         e == dragEffect[1]
         clip == ClipById(tracks, g.clipId)
     IN \E media \in MediaChoices(clip) :
          LET new == dragCandidate(clip, g.initialX, g.initialY,
                                   deltaX, deltaY, media)
          IN /\ dragging' =
                  Some([g EXCEPT
                          !.dragOffsetX =
                            RatAdd(new[1], <<-OffsetOr0(clip.x), 1>>),
                          !.dragOffsetY =
                            RatAdd(new[2], <<-OffsetOr0(clip.y), 1>>)])
             /\ IF now - e.lastUpdateTime >= updateThrottle
                THEN /\ CommitPosition(clip, new)
                     /\ dragEffect' =
                          Some([e EXCEPT !.pendingUpdate = None,
                                         !.lastUpdateTime = now,
                                         !.orphaned = @ \/ e.raf,
                                         !.raf = FALSE, !.stale = TRUE])
                ELSE /\ dragEffect' =
                          Some([e EXCEPT !.pendingUpdate = Some(new),
                                         !.raf = TRUE])
                     /\ UNCHANGED <<tracks, totalFrames, lastCommit>>
  /\ UNCHANGED <<resizeVars, deleteVars, isPlaying, stalled, now, viewportDimensions, strayUpdate, scrubVars, resizing,
                 nextId, nextTrackId, pendingTextClip, pendingFileUpload,
                 probes, moves>>

\* The render after a commit: the effect's cleanup cancels the animation
\* frame that rafIdRef holds and the effect runs again with a new closure.
DragRerender ==
  /\ dragEffect # None
  /\ dragEffect[1].stale
  /\ dragEffect' = Some(FreshDragEffect(dragEffect[1].clipId))
  /\ strayUpdate' = StrayAfterCleanup(dragEffect)
  /\ UNCHANGED <<resizeVars, deleteVars, isPlaying, stalled, dragging, lastCommit, now, viewportDimensions, scrubVars,
                 resizing, tracks, nextId, nextTrackId, pendingTextClip,
                 pendingFileUpload, probes, totalFrames, moves>>

\* handleMouseUp of the drag effect: a pending update is committed, the
\* gesture ends and the animation frame that rafIdRef holds is cancelled;
\* the render that follows unmounts the effect.
DragMouseUp ==
  /\ dragging # None
  /\ dragEffect # None
  /\ LET clip == ClipById(tracks, dragging[1].clipId)
         pending == dragEffect[1].pendingUpdate
     IN IF pending # None
        THEN CommitPosition(clip, pending[1])
        ELSE UNCHANGED <<tracks, totalFrames, lastCommit>>
  /\ dragging' = None
  /\ dragEffect' = None
  /\ UNCHANGED <<resizeVars, deleteVars, isPlaying, stalled, now, viewportDimensions, strayUpdate, scrubVars, resizing,
                 nextId, nextTrackId, pendingTextClip, pendingFileUpload,
                 probes, moves>>

\* ------------------------------------------------------ the scrub gesture
\* fps={30} of the timeline, the width of its left panel in pixels, and
\* const seekThrottle = 50.
TimelineFps == 30
leftPanelWidth == 200
seekThrottle == 50

\* pixelsPerSecond = (60 * zoomLevel) / 100 for the zoom levels 25, 100, 200.
PixelsPerSecond == {15, 60, 120}

\* A mapping that truncates instead of rounding.
FrameByTruncation(clientX, pps, maxFrame) ==
  LET x == clientX - leftPanelWidth
  IN IF x < 0 THEN 0
     ELSE Max2(0, Min2((x * TimelineFps) \div pps, maxFrame - 1))

\* getFrameFromPosition, with clientX counted from the ruler's left edge:
\* Math.round((x / pixelsPerSecond) * fps) clamped to [0, maxFrame - 1].
getFrameFromPosition(clientX, pps, maxFrame) ==
  LET x == clientX - leftPanelWidth
  IN IF x < 0 THEN 0
     ELSE Max2(0, Min2((2 * x * TimelineFps + pps) \div (2 * pps),
                       maxFrame - 1))

\* The closure of the scrub effect as it is when the effect has just run with
\* the dragFrame of that render.
FreshScrubEffect(dragFrame) ==
  [lastSeekTime |-> 0, rafFrame |-> None, dragFrame |-> dragFrame,
   stale |-> FALSE]

\* Seeks of one scrub are followed up to MaxSeeks.
MaxSeeks == 3

SeeksSoFar == IF lastSeek = None THEN 0 ELSE lastSeek[1].n

\* handleSeek: the player (seekTo) and currentFrame go to the frame clamped to
\* [0, totalFrames - 1]; the call is noted in lastSeek.
handleSeek(frame) ==
  LET clampedFrame == Max2(0, Min2(frame, totalFrames - 1))
  IN /\ currentFrame' = clampedFrame
     /\ playerFrame' = clampedFrame
     /\ lastSeek' = Some([frame |-> clampedFrame, at |-> now,
                          n |-> SeeksSoFar + 1])

\* handleMouseDown on the ruler or the playhead: the scrub starts with a seek
\* to the pointer's frame, and the render that follows mounts the effect.
ScrubMouseDown(clientX, pps) ==
  /\ Idle
  /\ scrubbing = None
  /\ SeeksSoFar < MaxSeeks
  /\ handleSeek(getFrameFromPosition(clientX, pps, totalFrames))
  /\ scrubbing' = Some([dragFrame |-> None, pixelsPerSecond |-> pps])
  /\ scrubEffect' = Some(FreshScrubEffect(None))
  /\ UNCHANGED <<resizeVars, deleteVars, isPlaying, stalled, dragVars, now, viewportDimensions, strayUpdate, resizing, tracks, nextId, nextTrackId,
                 pendingTextClip, pendingFileUpload, probes, totalFrames, moves>>

\* handleMouseMove of the scrub effect: dragFrame follows the pointer; the
\* seek is issued at once when seekThrottle milliseconds have passed since
\* the closure's last seek, else an animation frame is requested for this
\* frame unless one is requested already.
ScrubMouseMove(clientX) ==
  /\ scrubEffect # None
  /\ SeeksSoFar < MaxSeeks
  /\ LET e == scrubEffect[1]
         frame == getFrameFromPosition(clientX, scrubbing[1].pixelsPerSecond,
                                       totalFrames)
     IN /\ scrubbing' = Some([scrubbing[1] EXCEPT !.dragFrame = Some(frame)])
        /\ IF now - e.lastSeekTime >= seekThrottle
           THEN /\ handleSeek(frame)
                /\ scrubEffect' =
                     Some([e EXCEPT
                             !.lastSeekTime = now,
                             !.stale = \/ @
                                       \/ scrubbing[1].dragFrame # Some(frame)
                                       \/ currentFrame' # currentFrame])
           ELSE /\ scrubEffect' =
                     Some([e EXCEPT
                             !.rafFrame = IF @ = None THEN Some(frame) ELSE @,
                             !.stale = @ \/ scrubbing[1].dragFrame # Some(frame)])
                /\ UNCHANGED <<currentFrame, playerFrame, lastSeek>>
  /\ UNCHANGED <<resizeVars, deleteVars, isPlaying, stalled, dragVars, now, viewportDimensions, strayUpdate, resizing, tracks, nextId, nextTrackId,
                 pendingTextClip, pendingFileUpload, probes, totalFrames, moves>>

\* The render after setDragFrame or a seek: the effect's cleanup cancels the
\* requested animation frame and the effect runs again with the new
\* dragFrame in its closure.
ScrubRerender ==
  /\ scrubEffect # None
  /\ scrubEffect[1].stale
  /\ scrubEffect' = Some(FreshScrubEffect(scrubbing[1].dragFrame))
  /\ UNCHANGED <<resizeVars, deleteVars, isPlaying, stalled, dragVars, now, viewportDimensions, strayUpdate, scrubbing, currentFrame, playerFrame, lastSeek, resizing,
                 tracks, nextId, nextTrackId, pendingTextClip,
                 pendingFileUpload, probes, totalFrames, moves>>

\* handleMouseUp of the scrub effect: a final seek to the closure's
\* dragFrame, then the scrub ends and the requested frame is cancelled.
ScrubMouseUp ==
  /\ scrubEffect # None
  /\ IF scrubEffect[1].dragFrame # None
     THEN handleSeek(scrubEffect[1].dragFrame[1])
     ELSE UNCHANGED <<currentFrame, playerFrame, lastSeek>>
  /\ scrubbing' = None
  /\ scrubEffect' = None
  /\ UNCHANGED <<resizeVars, deleteVars, isPlaying, stalled, dragVars, now, viewportDimensions, strayUpdate, resizing, tracks, nextId, nextTrackId,
                 pendingTextClip, pendingFileUpload, probes, totalFrames, moves>>

\* ------------------------------------------------------------------ time
\* The clock is read every ClockStep milliseconds and animation frames come
\* FramePeriod milliseconds apart, later than updateThrottle after the frame
\* before.  Behaviours are followed for MaxElapsed milliseconds.
ClockStep == 8
FramePeriod == 24
MaxElapsed == 32

TimePasses ==
  /\ now + ClockStep <= StartTime + MaxElapsed
  /\ (now + ClockStep) % FramePeriod # 0
  /\ now' = now + ClockStep
  /\ UNCHANGED <<resizeVars, deleteVars, isPlaying, stalled, dragVars, strayUpdate, viewportDimensions, scrubVars, resizing,
                 tracks, nextId, nextTrackId, pendingTextClip,
                 pendingFileUpload, probes, totalFrames, moves>>

\* onResize as a requested callback calls it, on the arrangement ts.
CommitTo(ts, clipId, pos) ==
  LET clip == ClipById(ts, clipId)
  IN handleClipResize(ts, clipId, clip.durationInFrames,
                      <<Some(ScaleOr1(clip.scaleX)), Some(ScaleOr1(clip.scaleY))>>,
                      <<Some(pos[1]), Some(pos[2])>>)

\* The next animation frame: the callbacks requested with
\* requestAnimationFrame and not cancelled run in the order of their
\* requests, applyPendingUpdate of a replaced closure, applyPendingUpdate of
\* the mounted drag effect and the deferred onSeek of the scrub effect.
AnimationFrame ==
  /\ now + ClockStep <= StartTime + MaxElapsed
  /\ (now + ClockStep) % FramePeriod = 0
  /\ now' = now + ClockStep
  /\ LET mounted == dragEffect # None
                      /\ (dragEffect[1].raf \/ dragEffect[1].orphaned)
         pending == IF mounted THEN dragEffect[1].pendingUpdate ELSE None
         afterStray == IF strayUpdate = None THEN tracks
                       ELSE CommitTo(tracks, strayUpdate[1].clipId,
                                     strayUpdate[1].pos)
         last == IF pending # None
                 THEN [clipId |-> dragEffect[1].clipId, pos |-> pending[1]]
                 ELSE strayUpdate[1]
         commits == (IF strayUpdate = None THEN 0 ELSE 1)
                      + (IF pending = None THEN 0 ELSE 1)
     IN /\ tracks' = IF pending = None THEN afterStray
                     ELSE CommitTo(afterStray, dragEffect[1].clipId, pending[1])
        /\ Rendered
        /\ lastCommit' =
             IF commits = 0 THEN lastCommit
             ELSE Some([clipId |-> last.clipId, x |-> last.pos[1],
                        y |-> last.pos[2], at |-> now',
                        n |-> CommitsSoFar + commits])
        /\ dragEffect' =
             IF dragEffect = None THEN None
             ELSE IF mounted
             THEN Some([dragEffect[1] EXCEPT
                          !.pendingUpdate = None,
                          !.lastUpdateTime = IF pending = None THEN @ ELSE now',
                          !.raf = FALSE, !.orphaned = FALSE,
                          !.stale = @ \/ commits > 0])
             ELSE Some([dragEffect[1] EXCEPT !.stale = @ \/ commits > 0])
        /\ strayUpdate' = None
  /\ IF scrubEffect # None /\ scrubEffect[1].rafFrame # None
     THEN LET clampedFrame ==
                Max2(0, Min2(scrubEffect[1].rafFrame[1], totalFrames - 1))
          IN /\ currentFrame' = clampedFrame
             /\ playerFrame' = clampedFrame
             /\ lastSeek' = Some([frame |-> clampedFrame, at |-> now',
                                  n |-> SeeksSoFar + 1])
             /\ scrubEffect' =
                  Some([scrubEffect[1] EXCEPT
                          !.rafFrame = None,
                          !.stale = @ \/ clampedFrame # currentFrame])
     ELSE UNCHANGED <<currentFrame, playerFrame, lastSeek, scrubEffect>>
  /\ UNCHANGED <<resizeVars, deleteVars, isPlaying, stalled, dragging, viewportDimensions, scrubbing, resizing, nextId,
                 nextTrackId, pendingTextClip, pendingFileUpload, probes, moves>>

\* Gestures are followed from scales whose denominators do not exceed
\* MaxDenominator; the scales they commit may be finer.
MaxDenominator == 10

\* The closure of the resize effect as it is when the effect has just run:
\* hasStarted = false, startMouseX = startMouseY = 0.  run counts the runs of
\* the effect in this gesture, and stale says that a dependency has changed,
\* so that the next render runs the effect again.
FreshResizeEffect(run) ==
  [hasStarted |-> FALSE, startMouse |-> <<<<0, 1>>, <<0, 1>>>>,
   stale |-> FALSE, run |-> run]

\* What is noted of a gesture for the properties: mediaDimensions as the
\* gesture starts, and the pointer, the scale and the number of the last
\* commit made from a pointer position.
ResizeNoted(media) ==
  [initialMedia |-> media, pointer |-> None, scale |-> None, n |-> 0]

\* handleResizeStart: the mouse goes down on a handle of the selected clip,
\* and the render that follows runs the resize effect.
HandleResizeStart(clipId, handle) ==
  /\ Idle
  /\ ScaleOr1(ClipById(tracks, clipId).scaleX)[2] <= MaxDenominator
  /\ ScaleOr1(ClipById(tracks, clipId).scaleY)[2] <= MaxDenominator
  /\ LET clip == ClipById(tracks, clipId)
         scaleX == ScaleOr1(clip.scaleX)
         scaleY == ScaleOr1(clip.scaleY)
     IN resizing' =
          Some([clipId |-> clipId, resizeHandle |-> handle,
                initialScaleX |-> scaleX, initialScaleY |-> scaleY,
                aspectRatio |-> IF scaleY[1] # 0 THEN RatDiv(scaleX, scaleY)
                                ELSE <<1, 1>>])
  /\ resizeEffect' = Some(FreshResizeEffect(1))
  /\ lastResize' = Some(ResizeNoted(mediaDimensions))
  /\ UNCHANGED <<mediaDimensions, deleteVars, isPlaying, stalled, dragVars, now, viewportDimensions, strayUpdate, scrubVars, tracks, nextId, nextTrackId,
                 pendingTextClip, pendingFileUpload, probes, totalFrames, moves>>

\* One mousemove of the gesture, for a pointer given by its displacement from
\* the handle's starting position: onResize with the new scale, the clip's
\* duration and its position.
ResizeMouseMove(deltaX, deltaY) ==
  /\ resizing # None
  /\ LET clip == ClipById(tracks, resizing[1].clipId)
     IN \E media \in MediaChoices(clip) :
          LET new == handleMouseMove(resizing[1], deltaX, deltaY, media)
          IN tracks' = handleClipResize(tracks, clip.id, clip.durationInFrames,
                         <<Some(new[1]), Some(new[2])>>,
                         <<Some(OffsetOr0(clip.x)), Some(OffsetOr0(clip.y))>>)
  /\ Rendered
  /\ dragEffect' = StaleAfterCommit(dragEffect)
  /\ UNCHANGED <<resizeVars, deleteVars, isPlaying, stalled, dragging, lastCommit, now, viewportDimensions, strayUpdate, scrubVars, resizing, nextId,
                 nextTrackId, pendingTextClip, pendingFileUpload, probes, moves>>

\* handleMouseUp ends the gesture, and the render that follows removes the
\* effect's listeners.
ResizeMouseUp ==
  /\ resizing # None
  /\ resizing' = None
  /\ resizeEffect' = None
  /\ lastResize' = None
  /\ UNCHANGED <<mediaDimensions, deleteVars, isPlaying, stalled, dragVars, now, viewportDimensions, strayUpdate, scrubVars, tracks, nextId, nextTrackId,
                 pendingTextClip, pendingFileUpload, probes, totalFrames, moves>>

\* Displacements of the pointer from the handle, in composition pixels.
PointerDeltas == {-2000, -608, 64, 2000}

\* The scales a gesture can start from: every pair of these per clip, or no
\* stored scale at all.
StartScales == {<<1, 10>>, <<1, 2>>, <<1, 1>>, <<3, 1>>}

\* One image on the video track.
InitGesture ==
  /\ \E sx \in StartScales \cup {None}, sy \in StartScales \cup {None} :
       /\ (sx = None) = (sy = None)
       /\ tracks =
            [InitialTracks EXCEPT
               ![2].clips =
                 <<[MakeClip(FirstClipUuid, "image", DefaultDuration)
                      EXCEPT !.scaleX = IF sx = None THEN None ELSE Some(sx),
                             !.scaleY = IF sy = None THEN None ELSE Some(sy)]>>]
  /\ nextId = FirstClipUuid + 1
  /\ nextTrackId = FirstTrackUuid
  /\ pendingTextClip = None
  /\ pendingFileUpload = None
  /\ probes = <<>>
  /\ totalFrames = TotalFramesOf(tracks)
  /\ moves = 0
  /\ resizing = None
  /\ GesturesIdle

NextGesture ==
  \/ \E id \in ClipIds, handle \in ResizeHandles : HandleResizeStart(id, handle)
  \/ \E deltaX \in PointerDeltas, deltaY \in PointerDeltas :
       ResizeMouseMove(deltaX, deltaY)
  \/ ResizeMouseUp

SpecGesture == InitGesture /\ [][NextGesture]_vars

\* ---------------------------------------------- resizing any kind of clip
ClipTypes == {"text", "image", "video", "audio"}

\* One clip of any type on the track of its type, selected in the overlay.
InitMedia ==
  /\ \E type \in ClipTypes :
       LET home == IF type = "text" THEN 1 ELSE IF type = "audio" THEN 3 ELSE 2
       IN tracks =
            [InitialTracks EXCEPT
               ![home].clips = <<MakeClip(FirstClipUuid, type, DefaultDuration)>>]
  /\ nextId = FirstClipUuid + 1
  /\ nextTrackId = FirstTrackUuid
  /\ pendingTextClip = None
  /\ pendingFileUpload = None
  /\ probes = <<>>
  /\ totalFrames = TotalFramesOf(tracks)
  /\ moves = 0
  /\ resizing = None
  /\ GesturesIdle

SpecMedia == InitMedia /\ [][NextGesture]_vars

\* -------------------------------------------------- scrubbing the timeline
\* Positions of the pointer counted from the ruler's left edge, and the
\* lengths of the clip on the timeline.
ScrubPositions == {150, 229, 260, 500, 5000}
ScrubDurations == {90, 450}

\* One video on the video track, the playhead at frame 0.
InitScrub ==
  /\ \E duration \in ScrubDurations :
       tracks = [InitialTracks EXCEPT
                   ![2].clips = <<MakeClip(FirstClipUuid, "video", duration)>>]
  /\ nextId = FirstClipUuid + 1
  /\ nextTrackId = FirstTrackUuid
  /\ pendingTextClip = None
  /\ pendingFileUpload = None
  /\ probes = <<>>
  /\ totalFrames = TotalFramesOf(tracks)
  /\ moves = 0
  /\ resizing = None
  /\ GesturesIdle

NextScrub ==
  \/ \E clientX \in ScrubPositions, pps \in PixelsPerSecond :
       ScrubMouseDown(clientX, pps)
  \/ \E clientX \in ScrubPositions : ScrubMouseMove(clientX)
  \/ ScrubRerender
  \/ ScrubMouseUp
  \/ TimePasses
  \/ AnimationFrame

SpecScrub == InitScrub /\ [][NextScrub]_vars

\* ------------------------------------------------------------ the viewport
\* Sizes of the overlay's bounding rectangle: as wide as the composition is,
\* wider, and taller.
ViewportSizes ==
  {<<1280, 720>>, <<1600, 720>>, <<1000, 300>>, <<640, 720>>, <<300, 500>>}

\* updateViewport: the overlay measures its rectangle when it is mounted and
\* when the window or the element is resized.
MeasureViewport(size) ==
  /\ viewportDimensions # Some(size)
  /\ viewportDimensions' = Some(size)
  /\ dragEffect' = StaleAfterCommit(dragEffect)
  /\ UNCHANGED <<resizeVars, deleteVars, isPlaying, stalled, dragging, lastCommit, strayUpdate, now, scrubVars, resizing,
                 tracks, nextId, nextTrackId, pendingTextClip,
                 pendingFileUpload, probes, totalFrames, moves>>

ViewportWider(size) ==
  size[1] * compositionHeight > compositionWidth * size[2]

\* compX, compY of handleClick for a click at clickX, clickY in an overlay of
\* the given rectangle.
viewportToComposition(click, rect) ==
  LET aspectRatio == Rat(compositionWidth, compositionHeight)
      clickX == <<click[1], 1>>
      clickY == <<click[2], 1>>
  IN IF ViewportWider(rect)
     THEN LET scaledHeight == <<rect[2], 1>>
              scaledWidth == RatMul(scaledHeight, aspectRatio)
              offsetX == RatMul(RatAdd(<<rect[1], 1>>, RatNeg(scaledWidth)),
                                <<1, 2>>)
          IN <<RatMul(RatDiv(RatAdd(clickX, RatNeg(offsetX)), scaledWidth),
                      <<compositionWidth, 1>>),
               RatMul(RatDiv(clickY, scaledHeight), <<compositionHeight, 1>>)>>
     ELSE LET scaledWidth == <<rect[1], 1>>
              scaledHeight == RatDiv(scaledWidth, aspectRatio)
              offsetY == RatMul(RatAdd(<<rect[2], 1>>, RatNeg(scaledHeight)),
                                <<1, 2>>)
          IN <<RatMul(RatDiv(clickX, scaledWidth), <<compositionWidth, 1>>),
               RatMul(RatDiv(RatAdd(clickY, RatNeg(offsetY)), scaledHeight),
                      <<compositionHeight, 1>>)>>

\* A conversion that scales but leaves the letterbox offset out.
compositionToViewportUnshifted(point, viewport) ==
  IF viewport = None THEN point
  ELSE LET scale == IF ViewportWider(viewport[1])
                    THEN Rat(viewport[1][2], compositionHeight)
                    ELSE Rat(viewport[1][1], compositionWidth)
       IN <<RatMul(point[1], scale), RatMul(point[2], scale)>>

\* clipLeft, clipTop of the overlay for the composition point
\* clipLeftComposition, clipTopComposition.
compositionToViewport(point, viewport) ==
  IF viewport = None THEN point
  ELSE LET compositionAspectRatio == Rat(compositionWidth, compositionHeight)
           width == <<viewport[1][1], 1>>
           height == <<viewport[1][2], 1>>
       IN IF ViewportWider(viewport[1])
          THEN LET viewportScaleY == RatDiv(height, <<compositionHeight, 1>>)
                   scaledViewportWidth == RatMul(height, compositionAspectRatio)
                   offsetX == RatMul(RatAdd(width, RatNeg(scaledViewportWidth)),
                                     <<1, 2>>)
               IN <<RatAdd(offsetX, RatMul(point[1], viewportScaleY)),
                    RatMul(point[2], viewportScaleY)>>
          ELSE LET viewportScaleX == RatDiv(width, <<compositionWidth, 1>>)
                   scaledViewportHeight == RatDiv(width, compositionAspectRatio)
                   offsetY == RatMul(RatAdd(height, RatNeg(scaledViewportHeight)),
                                     <<1, 2>>)
               IN <<RatMul(point[1], viewportScaleX),
                    RatAdd(offsetY, RatMul(point[2], viewportScaleX))>>

\* ------------------------------------------- moving and resizing one clip
\* Displacements of the pointer from where a move started, in composition
\* pixels, and the scales the moved clip can start from.
DragDeltas == {<<-2000, 0>>, <<100, 50>>, <<2000, 2000>>}
DragStartScales == {<<1, 2>>, <<1, 1>>, <<2, 1>>}
ResizeDeltas == {-608, 2000}

\* One text clip on the text track, selected in the overlay.
InitDrag ==
  /\ \E sx \in DragStartScales \cup {None}, sy \in DragStartScales \cup {None} :
       /\ (sx = None) = (sy = None)
       /\ tracks =
            [InitialTracks EXCEPT
               ![1].clips =
                 <<[MakeClip(FirstClipUuid, "text", TextDuration)
                      EXCEPT !.scaleX = IF sx = None THEN None ELSE Some(sx),
                             !.scaleY = IF sy = None THEN None ELSE Some(sy)]>>]
  /\ nextId = FirstClipUuid + 1
  /\ nextTrackId = FirstTrackUuid
  /\ pendingTextClip = None
  /\ pendingFileUpload = None
  /\ probes = <<>>
  /\ totalFrames = TotalFramesOf(tracks)
  /\ moves = 0
  /\ resizing = None
  /\ GesturesIdle

NextDrag ==
  \/ \E id \in ClipIds : HandleDragStart(id)
  \/ \E delta \in DragDeltas : DragMouseMove(delta[1], delta[2])
  \/ DragRerender
  \/ DragMouseUp
  \/ TimePasses
  \/ AnimationFrame

SpecDrag == InitDrag /\ [][NextDrag]_vars

\* Moves and resizes of the same clip, pointer events only.
NextMoveResize ==
  \/ \E id \in ClipIds : HandleDragStart(id)
  \/ DragMouseMove(2000, 0)
  \/ DragRerender
  \/ DragMouseUp
  \/ \E id \in ClipIds : HandleResizeStart(id, "bottom-right")
  \/ \E deltaX \in ResizeDeltas : ResizeMouseMove(deltaX, 0)
  \/ ResizeMouseUp

SpecMoveResize == InitDrag /\ [][NextMoveResize]_vars

\* Moves of the clip in an overlay whose rectangle is measured again and
\* again.
NextViewport ==
  \/ \E size \in ViewportSizes : MeasureViewport(size)
  \/ \E id \in ClipIds : HandleDragStart(id)
  \/ DragMouseMove(2000, 0)
  \/ DragRerender
  \/ DragMouseUp

SpecViewport == InitDrag /\ [][NextViewport]_vars

\* --------------------------------- the resize gesture from the pointer on
\* Commits of one resize gesture made from pointer positions are followed up
\* to MaxResizes.
MaxResizes == 2

\* viewportScaleY or viewportScaleX of the overlay's rectangle.
viewportScale(rect) ==
  IF ViewportWider(rect) THEN Rat(rect[2], compositionHeight)
  ELSE Rat(rect[1], compositionWidth)

\* A handle position that follows the clip's current scale instead of the
\* scale the gesture started from.
handleOfCurrentBox(g, clip, media, rect) ==
  LET w == RatMul(displayedWidth(media), ScaleOr1(clip.scaleX))
      h == RatMul(displayedHeight(media), ScaleOr1(clip.scaleY))
      corner ==
        compositionToViewport(
          <<RatAdd(<<compositionWidth \div 2 + OffsetOr0(clip.x), 1>>,
                   RatNeg(RatMul(w, <<1, 2>>))),
            RatAdd(<<compositionHeight \div 2 + OffsetOr0(clip.y), 1>>,
                   RatNeg(RatMul(h, <<1, 2>>)))>>,
          Some(rect))
  IN <<RatAdd(corner[1],
              IF g.resizeHandle \in {"right", "top-right", "bottom-right"}
              THEN RatMul(w, viewportScale(rect))
              ELSE IF g.resizeHandle \in {"top", "bottom"}
              THEN RatMul(RatMul(w, viewportScale(rect)), <<1, 2>>)
              ELSE <<0, 1>>),
       RatAdd(corner[2],
              IF g.resizeHandle \in {"bottom", "bottom-left", "bottom-right"}
              THEN RatMul(h, viewportScale(rect))
              ELSE IF g.resizeHandle \in {"left", "right"}
              THEN RatMul(RatMul(h, viewportScale(rect)), <<1, 2>>)
              ELSE <<0, 1>>)>>

\* startMouseX, startMouseY as the first mousemove of a closure sets them:
\* where the handle lay in the overlay when the clip had its initial scale,
\* with the pointer counted from the overlay's top-left corner (rect.left =
\* rect.top = 0).
handleStart(g, clip, media, rect) ==
  LET initialScaledWidth == RatMul(displayedWidth(media), g.initialScaleX)
      initialScaledHeight == RatMul(displayedHeight(media), g.initialScaleY)
      initialClipLeftComposition ==
        RatAdd(<<compositionWidth \div 2 + OffsetOr0(clip.x), 1>>,
               RatNeg(RatMul(initialScaledWidth, <<1, 2>>)))
      initialClipTopComposition ==
        RatAdd(<<compositionHeight \div 2 + OffsetOr0(clip.y), 1>>,
               RatNeg(RatMul(initialScaledHeight, <<1, 2>>)))
      corner == compositionToViewport(
                  <<initialClipLeftComposition, initialClipTopComposition>>,
                  Some(rect))
      initialScaledWidthViewport ==
        RatMul(initialScaledWidth, viewportScale(rect))
      initialScaledHeightViewport ==
        RatMul(initialScaledHeight, viewportScale(rect))
  IN <<RatAdd(corner[1],
              IF g.resizeHandle \in {"right", "top-right", "bottom-right"}
              THEN initialScaledWidthViewport
              ELSE IF g.resizeHandle \in {"top", "bottom"}
              THEN RatMul(initialScaledWidthViewport, <<1, 2>>)
              ELSE <<0, 1>>),
       RatAdd(corner[2],
              IF g.resizeHandle \in {"bottom", "bottom-left", "bottom-right"}
              THEN initialScaledHeightViewport
              ELSE IF g.resizeHandle \in {"left", "right"}
              THEN RatMul(initialScaledHeightViewport, <<1, 2>>)
              ELSE <<0, 1>>)>>

\* scaleFactor of handleMouseMove: composition pixels per overlay pixel.
scaleFactor(rect) ==
  IF ViewportWider(rect) THEN Rat(compositionHeight, rect[2])
  ELSE Rat(compositionWidth, rect[1])

\* handleMouseMove of the resize effect for a pointer at clientX, clientY:
\* the first mousemove of a closure sets its start position, the
\* displacement from it is converted to composition pixels, and onResize
\* commits the scale it gives.
ResizePointerMove(clientX, clientY) ==
  /\ resizing # None
  /\ resizeEffect # None
  /\ viewportDimensions # None
  /\ lastResize[1].n < MaxResizes
  /\ LET g == resizing[1]
         e == resizeEffect[1]
         rect == viewportDimensions[1]
         clip == ClipById(tracks, g.clipId)
         start == IF e.hasStarted THEN e.startMouse
                  ELSE handleStart(g, clip, mediaDimensions, rect)
         deltaX == RatMul(RatAdd(<<clientX, 1>>, RatNeg(start[1])),
                          scaleFactor(rect))
         deltaY == RatMul(RatAdd(<<clientY, 1>>, RatNeg(start[2])),
                          scaleFactor(rect))
         new == newScaleAt(g, deltaX, deltaY, mediaDimensions)
     IN /\ tracks' = handleClipResize(tracks, clip.id, clip.durationInFrames,
                        <<Some(new[1]), Some(new[2])>>,
                        <<Some(OffsetOr0(clip.x)), Some(OffsetOr0(clip.y))>>)
        /\ resizeEffect' = Some([e EXCEPT !.hasStarted = TRUE,
                                          !.startMouse = start,
                                          !.stale = TRUE])
        /\ lastResize' = Some([lastResize[1] EXCEPT
                                 !.pointer = Some(<<clientX, clientY>>),
                                 !.scale = Some(new),
                                 !.n = @ + 1])
  /\ Rendered
  /\ dragEffect' = StaleAfterCommit(dragEffect)
  /\ UNCHANGED <<mediaDimensions, deleteVars, isPlaying, stalled, dragging,
                 lastCommit, now, viewportDimensions, strayUpdate, scrubVars,
                 resizing, nextId, nextTrackId, pendingTextClip,
                 pendingFileUpload, probes, moves>>

\* The render after a commit: selectedClip, scaleX and scaleY are
\* dependencies of the resize effect, so its cleanup runs and the effect runs
\* again with hasStarted = false.
ResizeRerender ==
  /\ resizeEffect # None
  /\ resizeEffect[1].stale
  /\ resizeEffect' = Some(FreshResizeEffect(resizeEffect[1].run + 1))
  /\ UNCHANGED <<lastResize, mediaDimensions, deleteVars, isPlaying, stalled,
                 dragVars, now, viewportDimensions, strayUpdate, scrubVars,
                 resizing, tracks, nextId, nextTrackId, pendingTextClip,
                 pendingFileUpload, probes, totalFrames, moves>>

\* img.onload or video.onloadedmetadata of the overlay's loader while the
\* selected clip is being resized: setMediaDimensions with the natural size,
\* and the render that follows runs the resize effect again (mediaDimensions
\* is one of its dependencies).
MediaLoads(size) ==
  /\ resizing # None
  /\ resizeEffect # None
  /\ mediaDimensions = None
  /\ LET clip == ClipById(tracks, resizing[1].clipId)
     IN clip.src # None /\ clip.type \in {"image", "video"}
  /\ mediaDimensions' = Some(size)
  /\ resizeEffect' = Some(FreshResizeEffect(resizeEffect[1].run + 1))
  /\ UNCHANGED <<lastResize, deleteVars, isPlaying, stalled, dragVars, now,
                 viewportDimensions, strayUpdate, scrubVars, resizing, tracks,
                 nextId, nextTrackId, pendingTextClip, pendingFileUpload,
                 probes, totalFrames, moves>>

\* Pointer positions in the overlay, and the rectangles it can have: as wide
\* as the composition is, wider, and taller.
ResizePointers == {<<640, 360>>, <<800, 300>>, <<1200, 700>>}
ResizeRects == {<<1280, 720>>, <<1600, 720>>, <<640, 720>>}
ResizeStartScales == {<<1, 2>>, <<1, 1>>}
\* Natural sizes the selected image can turn out to have: square, and wider
\* than the composition.
ResizeMediaSizes == {<<720, 720>>, <<1280, 360>>}

\* One image on the video track, selected in an overlay that has measured its
\* rectangle; the image's natural size is known or still loading.
InitResizeTotal ==
  /\ \E sx \in ResizeStartScales, sy \in ResizeStartScales :
       tracks =
         [InitialTracks EXCEPT
            ![2].clips =
              <<[MakeClip(FirstClipUuid, "image", DefaultDuration)
                   EXCEPT !.scaleX = Some(sx), !.scaleY = Some(sy)]>>]
  /\ nextId = FirstClipUuid + 1
  /\ nextTrackId = FirstTrackUuid
  /\ pendingTextClip = None
  /\ pendingFileUpload = None
  /\ probes = <<>>
  /\ totalFrames = TotalFramesOf(tracks)
  /\ moves = 0
  /\ resizing = None
  /\ PointersIdle
  /\ viewportDimensions \in {Some(rect) : rect \in ResizeRects}
  /\ mediaDimensions \in {None} \cup {Some(m) : m \in ResizeMediaSizes}

NextResizeTotal ==
  \/ \E id \in ClipIds, handle \in ResizeHandles : HandleResizeStart(id, handle)
  \/ \E p \in ResizePointers : ResizePointerMove(p[1], p[2])
  \/ ResizeRerender
  \/ \E size \in ResizeMediaSizes : MediaLoads(size)
  \/ ResizeMouseUp

SpecResizeTotal == InitResizeTotal /\ [][NextResizeTotal]_vars

\* ------------------------------------------------------ placeholder clips
\* handleAddClipToTrack of the Timeline revision whose + button creates a
\* placeholder: a 90-frame clip of the track's type, with the text "New Text"
\* on a text track and the empty src "" (no src) on any other track, appended
\* and recompacted.
HandleAddPlaceholderClip(trackId) ==
  /\ Idle
  /\ nextId <= MaxId
  /\ LET type == TrackById(tracks, trackId).type
         newClip == [MakeClip(nextId, type, DefaultDuration)
                       EXCEPT !.src = None]
     IN tracks' = [i \in 1..Len(tracks) |->
                     IF tracks[i].id = trackId
                     THEN [tracks[i] EXCEPT !.clips =
                             recalculateStartFrames(Append(tracks[i].clips,
                                                           newClip))]
                     ELSE tracks[i]]
  /\ nextId' = nextId + 1
  /\ Rendered
  /\ UNCHANGED <<resizeVars, deleteVars, isPlaying, stalled, dragVars, now,
                 viewportDimensions, strayUpdate, scrubVars, resizing,
                 pendingTextClip, pendingFileUpload, probes, moves,
                 nextTrackId>>

\* The track types of that revision's "add track" buttons.
PlaceholderTrackTypes == {"image", "audio", "text"}

\* Placeholders next to clips from the library, reordered, moved and deleted.
NextPlaceholder ==
  \/ \E type \in PlaceholderTrackTypes : HandleAddTrack(type)
  \/ \E id \in TrackIds : HandleDeleteTrack(id)
  \/ \E id \in TrackIds : HandleAddPlaceholderClip(id)
  \/ \E asset \in LibraryAssets : HandleAddClipToTimeline(asset)
  \/ \E active \in ClipIds, over \in DropTargets : DragEndClip(active, over)
  \/ \E id \in HandedOutClipIds : DeleteClip(id)

SpecPlaceholder == Init /\ [][NextPlaceholder]_vars

\* ======================================================================
\* Properties
\* ======================================================================
\* Vocabulary of the properties, stated on the tracks value itself.
SetMax(S) == CHOOSE m \in S : \A x \in S : x <= m

TrackIndexes(ts) == 1..Len(ts)
TrackIdsOf(ts) == {ts[i].id : i \in TrackIndexes(ts)}
TrackWithId(ts, tid) == ts[CHOOSE i \in TrackIndexes(ts) : ts[i].id = tid]
ClipIdsOn(track) == {track.clips[j].id : j \in 1..Len(track.clips)}
AllClipIds(ts) == UNION {ClipIdsOn(ts[i]) : i \in TrackIndexes(ts)}
\* Every (track position, clip position) slot of the arrangement.
Slots(ts) ==
  UNION {{<<i, j>> : j \in 1..Len(ts[i].clips)} : i \in TrackIndexes(ts)}
ClipAt(ts, slot) == ts[slot[1]].clips[slot[2]]
SlotOf(ts, cid) == CHOOSE sl \in Slots(ts) : ClipAt(ts, sl).id = cid
ClipWithId(ts, cid) == ClipAt(ts, SlotOf(ts, cid))
OwnerId(ts, cid) == ts[SlotOf(ts, cid)[1]].id
EndOf(clip) == clip.startFrame + clip.durationInFrames

\* c0.startFrame = 0 and every next clip starts where its predecessor ends.
Compacted(clips) ==
  \A j \in 1..Len(clips) :
    clips[j].startFrame = IF j = 1 THEN 0 ELSE EndOf(clips[j - 1])

\* image and video clips belong on "video" tracks, audio on "audio", text
\* on "text".
TypeFits(clipType, trackType) ==
  \/ clipType \in {"image", "video"} /\ trackType = "video"
  \/ clipType = "audio" /\ trackType = "audio"
  \/ clipType = "text" /\ trackType = "text"

\* The track a drop on overId addresses: the lane itself or the lane of the
\* clip dropped on; NoId when overId is neither.
DestinationId(ts, overId) ==
  IF overId \in TrackIdsOf(ts) THEN overId
  ELSE IF overId \in AllClipIds(ts) THEN OwnerId(ts, overId)
  ELSE NoId

\* (activeId, overId) is a drop of a timeline clip that the editor treats as
\* a move: on a compatible track lane (its own included) or on a clip of
\* another compatible track.
MoveDrop(ts, activeId, overId) ==
  /\ activeId \in AllClipIds(ts)
  /\ DestinationId(ts, overId) # NoId
  /\ \/ overId \in TrackIdsOf(ts)
     \/ DestinationId(ts, overId) # OwnerId(ts, activeId)
  /\ TypeFits(ClipWithId(ts, activeId).type,
              TrackWithId(ts, DestinationId(ts, overId)).type)

\* The step is the move of clip activeId by a drop on overId.
MoveStep(activeId, overId) ==
  /\ moves' = moves + 1
  /\ MoveDrop(tracks, activeId, overId)
  /\ tracks' = DragEndClipResult(tracks, activeId, overId)

Drops == (TrackIds \cup ClipIds) \X (TrackIds \cup ClipIds)

\* ---------------------------------------------------------------- C1
\* C1: every compaction-mode operation on a track (placing a clip from the
\* library, an upload or the text modal, reordering within the track,
\* resizing a clip) leaves that track compacted: its first clip starts at
\* frame 0 and every next clip starts at the sum of the durations before it.
\* A step that is not a positional move and changes or creates a track's clip
\* sequence is such an operation.
C1_CompactionAfterCompactionOps ==
  [][moves' = moves =>
       \A tid \in TrackIdsOf(tracks') :
         (\/ tid \notin TrackIdsOf(tracks)
          \/ TrackWithId(tracks', tid).clips # TrackWithId(tracks, tid).clips)
         => Compacted(TrackWithId(tracks', tid).clips)]_vars

\* Two clips placed on one track by compaction placement only: the second
\* starts where the first ends.
C1_Witness ==
  /\ moves = 0
  /\ \E i \in TrackIndexes(tracks) :
       /\ Len(tracks[i].clips) = 2
       /\ tracks[i].clips[2].startFrame = tracks[i].clips[1].durationInFrames
       /\ tracks[i].clips[2].startFrame > 0
       /\ tracks[i].clips[1].durationInFrames
            # tracks[i].clips[2].durationInFrames

\* ---------------------------------------------------------------- C2
\* C2: a clip moved by a drop on a compatible track gets as startFrame the
\* largest startFrame + durationInFrames among the other clips of the
\* destination track, or 0 when the destination holds no other clip.
C2_PositionalPlacement ==
  [][\A d \in Drops :
       MoveStep(d[1], d[2]) =>
         ClipWithId(tracks', d[1]).startFrame =
           SetMax({0} \cup
                  {EndOf(c) : c \in {ClipWithId(tracks, cid) :
                     cid \in ClipIdsOn(TrackWithId(tracks,
                               DestinationId(tracks, d[2]))) \ {d[1]}}})]_vars

\* A clip that was moved onto a track behind a gap: it sits after a clip that
\* itself starts later than frame 0.
C2_Witness ==
  /\ moves = 2
  /\ \E i \in TrackIndexes(tracks) :
       /\ Len(tracks[i].clips) = 2
       /\ tracks[i].clips[1].startFrame > 0
       /\ tracks[i].clips[2].startFrame = EndOf(tracks[i].clips[1])

\* ---------------------------------------------------------------- C3
\* C3: every clip id occurs on exactly one track, at one position of its
\* sequence, and a move takes the clip out of the source
\* sequence and appends it to the destination sequence.
UniqueClipIds ==
  /\ \A i, k \in TrackIndexes(tracks) :
       i # k => ClipIdsOn(tracks[i]) \cap ClipIdsOn(tracks[k]) = {}
  /\ \A i \in TrackIndexes(tracks) :
       Cardinality(ClipIdsOn(tracks[i])) = Len(tracks[i].clips)

IdsOf(clips) == [j \in 1..Len(clips) |-> clips[j].id]
WithoutId(ids, cid) == SelectSeq(ids, LAMBDA x : x # cid)

MoveRemovesAndAppends ==
  \A d \in Drops :
    MoveStep(d[1], d[2]) =>
      LET src == OwnerId(tracks, d[1])
          dst == DestinationId(tracks, d[2])
      IN /\ OwnerId(tracks', d[1]) = dst
         /\ IdsOf(TrackWithId(tracks', dst).clips)
              = Append(WithoutId(IdsOf(TrackWithId(tracks, dst).clips), d[1]),
                       d[1])
         /\ src # dst =>
              IdsOf(TrackWithId(tracks', src).clips)
                = WithoutId(IdsOf(TrackWithId(tracks, src).clips), d[1])

C3_SingleOwnership ==
  [][UniqueClipIds /\ UniqueClipIds' /\ MoveRemovesAndAppends]_vars

\* One of two clips was moved to a second track of the same type.
C3_Witness ==
  /\ moves > 0
  /\ Cardinality(AllClipIds(tracks)) = 2
  /\ \E i, k \in TrackIndexes(tracks) :
       i # k /\ Len(tracks[i].clips) = 1 /\ Len(tracks[k].clips) = 1
       /\ tracks[i].type = tracks[k].type

\* ---------------------------------------------------------------- C4
\* C4: every clip on a track fits the track's type: image and video clips
\* are on "video" tracks only, audio clips on "audio" tracks only, text clips
\* on "text" tracks only.
C4_TrackTypeCompatibility ==
  \A sl \in Slots(tracks) :
    TypeFits(ClipAt(tracks, sl).type, tracks[sl[1]].type)

\* An image and a video clip share a video track after a move, or clips sit
\* on two tracks of different types.
C4_Witness ==
  /\ moves > 0
  /\ \E i \in TrackIndexes(tracks) :
       /\ tracks[i].type = "video"
       /\ {tracks[i].clips[j].type : j \in 1..Len(tracks[i].clips)}
            = {"image", "video"}
\* ---------------------------------------------------------------- C5
\* C5: dropping a library asset, or a clip of the timeline, on a track whose
\* type does not fit the clip's type leaves the tracks state as it is: the
\* handler's result is the tracks value it was given.
C5_IncompatiblePlacementNoOp ==
  /\ \A asset \in LibraryAssets, tid \in TrackIdsOf(tracks) :
       ~TypeFits(asset.type, TrackWithId(tracks, tid).type)
         => DragEndAssetResult(tracks, asset, tid, nextId) = tracks
  /\ \A cid \in AllClipIds(tracks), over \in TrackIds \cup ClipIds :
       ~TypeFits(ClipWithId(tracks, cid).type,
                 TrackWithId(tracks, DestinationId(tracks, over)).type)
         => DragEndClipResult(tracks, cid, over) = tracks

\* An audio clip and a video track holding a clip: the audio clip can be
\* dropped on the video lane and on the clip in it.
C5_Witness ==
  \E i, k \in TrackIndexes(tracks) :
    /\ tracks[i].type = "audio" /\ Len(tracks[i].clips) = 1
    /\ tracks[k].type = "video" /\ Len(tracks[k].clips) = 1

\* ---------------------------------------------------------------- C6
\* C6 as stated: after a clip is moved to a different compatible track, the
\* clips remaining on the source track are compacted.
C6_SourceRecompacted ==
  [][\A d \in Drops :
       (MoveStep(d[1], d[2])
          /\ DestinationId(tracks, d[2]) # OwnerId(tracks, d[1]))
       => Compacted(TrackWithId(tracks', OwnerId(tracks, d[1])).clips)]_vars

\* C6 amended: after a clip is moved to a different compatible track, the
\* clips remaining on the source track are the source's other clips in their
\* old order, each with the startFrame and durationInFrames it had: the
\* source is not recompacted and a gap stays where the moved clip was.
C6_SourceKeepsStartFrames ==
  [][\A d \in Drops :
       (MoveStep(d[1], d[2])
          /\ DestinationId(tracks, d[2]) # OwnerId(tracks, d[1]))
       => TrackWithId(tracks', OwnerId(tracks, d[1])).clips
            = SelectSeq(TrackWithId(tracks, OwnerId(tracks, d[1])).clips,
                        LAMBDA c : c.id # d[1])]_vars

\* The first of two clips of a track was moved to another track: the clip
\* left behind is alone on its track and starts later than frame 0.
C6_Witness ==
  /\ moves = 1
  /\ \E i, k \in TrackIndexes(tracks) :
       /\ i # k
       /\ Len(tracks[i].clips) = 1 /\ tracks[i].clips[1].startFrame > 0
       /\ Len(tracks[k].clips) = 1 /\ tracks[k].clips[1].startFrame = 0

\* ---------------------------------------------------------------- C7
\* C7: a move changes the startFrame and the durationInFrames of no clip but
\* the moved one, on the destination track in particular, and leaves every
\* track that is neither source nor destination as it was.
C7_GapsPreservedByMove ==
  [][\A d \in Drops :
       MoveStep(d[1], d[2]) =>
         /\ AllClipIds(tracks') = AllClipIds(tracks)
         /\ \A cid \in AllClipIds(tracks) \ {d[1]} :
              /\ ClipWithId(tracks', cid).startFrame
                   = ClipWithId(tracks, cid).startFrame
              /\ ClipWithId(tracks', cid).durationInFrames
                   = ClipWithId(tracks, cid).durationInFrames
         /\ ClipWithId(tracks', d[1]).durationInFrames
              = ClipWithId(tracks, d[1]).durationInFrames
         /\ Len(tracks') = Len(tracks)
         /\ \A i \in TrackIndexes(tracks) :
              tracks[i].id \notin {OwnerId(tracks, d[1]),
                                   DestinationId(tracks, d[2])}
                => tracks'[i] = tracks[i]]_vars

\* A destination track that kept a gap through a move: its first clip starts
\* later than frame 0 and the moved clip sits behind it, while another track
\* holds no clip.
C7_Witness ==
  /\ moves = 2
  /\ \E i \in TrackIndexes(tracks) :
       /\ Len(tracks[i].clips) = 2
       /\ tracks[i].clips[1].startFrame > 0
       /\ tracks[i].clips[2].startFrame > tracks[i].clips[1].startFrame
  /\ \E k \in TrackIndexes(tracks) :
       tracks[k].type = "video" /\ tracks[k].clips = <<>>
\* ---------------------------------------------------------------- C8
\* C8: every clip of every track has durationInFrames >= 1, clips from
\* uploads with the 90 and 300 frame fallbacks and from detected video
\* durations included, and handleClipResize stores the new duration when it
\* is at least 1 and stores 1 otherwise.
C8_DurationLowerBound ==
  /\ \A sl \in Slots(tracks) : ClipAt(tracks, sl).durationInFrames >= 1
  /\ \A cid \in AllClipIds(tracks), d \in ResizeDurations,
        scale \in ScaleInputs, pos \in PositionInputs :
       ClipWithId(handleClipResize(tracks, cid, d, scale, pos), cid)
           .durationInFrames
         = SetMax({1, d})

\* A clip resized below one frame sits in front of an uploaded video clip
\* whose probe fell back to 300 frames.
C8_Witness ==
  \E i \in TrackIndexes(tracks) :
    /\ Len(tracks[i].clips) = 2
    /\ tracks[i].clips[1].durationInFrames = 1
    /\ tracks[i].clips[2].type = "video"
    /\ tracks[i].clips[2].durationInFrames = FallbackDuration
    /\ tracks[i].clips[2].startFrame = 1

\* ---------------------------------------------------------------- C9
\* C9 as stated: after the overlay's onResize(clipId, duration, scaleX,
\* scaleY, x, y) the clip with that id has exactly those scaleX, scaleY, x
\* and y, and no other clip's scale or position has changed.
C9_ResizeAppliesScaleAndPosition ==
  \A cid \in AllClipIds(tracks), scale \in OverlayScales,
     pos \in OverlayPositions :
    LET after == handleClipResize(tracks, cid,
                   ClipWithId(tracks, cid).durationInFrames, scale, pos)
    IN /\ ClipWithId(after, cid).scaleX = scale[1]
       /\ ClipWithId(after, cid).scaleY = scale[2]
       /\ ClipWithId(after, cid).x = pos[1]
       /\ ClipWithId(after, cid).y = pos[2]
       /\ \A other \in AllClipIds(tracks) \ {cid} :
            /\ ClipWithId(after, other).scaleX = ClipWithId(tracks, other).scaleX
            /\ ClipWithId(after, other).scaleY = ClipWithId(tracks, other).scaleY
            /\ ClipWithId(after, other).x = ClipWithId(tracks, other).x
            /\ ClipWithId(after, other).y = ClipWithId(tracks, other).y

\* --------------------------------------------------------------- C10
\* C10: totalFrames is the largest of 90 and the startFrame + durationInFrames
\* of every clip of every track; it is 90 when no track holds a clip.
C10_TotalFrames ==
  totalFrames =
    SetMax({90} \cup {EndOf(ClipAt(tracks, sl)) : sl \in Slots(tracks)})

\* A timeline longer than the minimum whose end is set by a clip behind a
\* gap, next to a track with a shorter clip.
C10_Witness ==
  /\ totalFrames > 90
  /\ \E i, k \in TrackIndexes(tracks) :
       /\ i # k
       /\ Len(tracks[i].clips) = 1 /\ tracks[i].clips[1].startFrame > 0
       /\ EndOf(tracks[i].clips[1]) = totalFrames
       /\ Len(tracks[k].clips) = 1
       /\ EndOf(tracks[k].clips[1]) < totalFrames
\* --------------------------------------------------------------- C11
\* C11: deleteClip(clipId) removes exactly the clip with that id from its
\* track's sequence (a step that keeps the tracks and loses a clip), leaves every other track unchanged, and leaves the
\* remaining clips of that track compacted, in their old order and with
\* their old durations.
C11_DeleteClip ==
  [][\A cid \in AllClipIds(tracks) :
       /\ cid \notin AllClipIds(deleteClip(tracks, cid))
       /\ (cid \notin AllClipIds(tracks')
             /\ TrackIdsOf(tracks') = TrackIdsOf(tracks)) =>
            LET owner == OwnerId(tracks, cid)
            IN /\ IdsOf(TrackWithId(tracks', owner).clips)
                    = WithoutId(IdsOf(TrackWithId(tracks, owner).clips), cid)
               /\ Compacted(TrackWithId(tracks', owner).clips)
               /\ \A other \in AllClipIds(tracks') :
                    ClipWithId(tracks', other).durationInFrames
                      = ClipWithId(tracks, other).durationInFrames
               /\ Len(tracks') = Len(tracks)
               /\ \A i \in TrackIndexes(tracks) :
                    tracks[i].id # owner => tracks'[i] = tracks[i]]_vars

\* The first of two clips handed out is gone and the second one, the only
\* clip left, starts at frame 0 behind no gap.
C11_Witness ==
  /\ nextId = FirstClipUuid + 2
  /\ moves = 0
  /\ AllClipIds(tracks) = {FirstClipUuid + 1}
  /\ ClipWithId(tracks, FirstClipUuid + 1).startFrame = 0
  /\ ClipWithId(tracks, FirstClipUuid + 1).type = "image"
  /\ totalFrames = 90
\* --------------------------------------------------------------- C12
\* C12: dropping a clip on another clip of its track moves it from its old
\* index to the target's index: the other clips keep their relative order,
\* the track keeps its set of clips and every clip its duration, the track
\* is compacted afterwards and every other track is unchanged; dropping a
\* clip on itself changes nothing.  A clip drag that is not a positional move
\* and changes the tracks is such a reorder.
C12_ReorderWithinTrack ==
  [][/\ \A cid \in AllClipIds(tracks) :
          DragEndClipResult(tracks, cid, cid) = tracks
     /\ (moves' = moves /\ tracks' # tracks) =>
          \E i \in TrackIndexes(tracks) :
            /\ Len(tracks') = Len(tracks)
            /\ \A k \in TrackIndexes(tracks) \ {i} : tracks'[k] = tracks[k]
            /\ tracks'[i].id = tracks[i].id
            /\ tracks'[i].type = tracks[i].type
            /\ ClipIdsOn(tracks'[i]) = ClipIdsOn(tracks[i])
            /\ Len(tracks'[i].clips) = Len(tracks[i].clips)
            /\ Compacted(tracks'[i].clips)
            /\ \A cid \in ClipIdsOn(tracks[i]) :
                 ClipWithId(tracks', cid).durationInFrames
                   = ClipWithId(tracks, cid).durationInFrames
            /\ \E from, to \in 1..Len(tracks[i].clips) :
                 /\ from # to
                 /\ tracks'[i].clips[to].id = tracks[i].clips[from].id
                 /\ WithoutId(IdsOf(tracks'[i].clips), tracks[i].clips[from].id)
                      = WithoutId(IdsOf(tracks[i].clips),
                                  tracks[i].clips[from].id)
                 /\ tracks' = DragEndClipResult(tracks, tracks[i].clips[from].id,
                                                tracks[i].clips[to].id)]_vars

\* The first clip handed out has been moved behind the two others, which
\* kept their order, and the track is compacted.
C12_Witness ==
  /\ moves = 0
  /\ Len(tracks[2].clips) = 3
  /\ IdsOf(tracks[2].clips)
       = <<FirstClipUuid + 1, FirstClipUuid + 2, FirstClipUuid>>
  /\ tracks[2].clips[1].durationInFrames # tracks[2].clips[2].durationInFrames
  /\ tracks[2].clips[3].startFrame
       = tracks[2].clips[1].durationInFrames
           + tracks[2].clips[2].durationInFrames
\* --------------------------------------------------------------- C13
\* C13: placement with a target track id appends the clip to that track and
\* changes no other track (nothing changes when no track has the id);
\* placement without one appends the clip to the first track whose type fits
\* the clip's type, image clips fitting "video" tracks; when no track fits,
\* one new track of the fitting type holding only the clip is appended to
\* the track list and the existing tracks are unchanged.
PlacedClips == LibraryAssets \cup {MakeClip(NoId, "text", TextDuration)}

\* track with the clip of id cid appended, whatever its startFrame.
AppendedTo(before, after, clip, cid) ==
  /\ after.id = before.id
  /\ after.type = before.type
  /\ IdsOf(after.clips) = Append(IdsOf(before.clips), cid)
  /\ after.clips[Len(after.clips)].type = clip.type
  /\ after.clips[Len(after.clips)].durationInFrames = clip.durationInFrames

FirstFitting(ts, clipType) ==
  {i \in TrackIndexes(ts) :
     /\ TypeFits(clipType, ts[i].type)
     /\ \A k \in 1..(i - 1) : ~TypeFits(clipType, ts[k].type)}

C13_PlaceClipTrackSelection ==
  \A clip \in PlacedClips :
    /\ \A tid \in TrackIdsOf(tracks) \cup {MaxTrackUuid + 1} :
         LET after == addClipToTimeline(tracks, clip, Some(tid), nextId,
                                        nextTrackId)
         IN /\ Len(after) = Len(tracks)
            /\ \A i \in TrackIndexes(tracks) :
                 IF tracks[i].id = tid
                 THEN AppendedTo(tracks[i], after[i], clip, nextId)
                 ELSE after[i] = tracks[i]
    /\ LET after == addClipToTimeline(tracks, clip, None, nextId, nextTrackId)
           first == FirstFitting(tracks, clip.type)
       IN IF first # {}
          THEN /\ Len(after) = Len(tracks)
               /\ \A i \in TrackIndexes(tracks) :
                    IF i \in first
                    THEN AppendedTo(tracks[i], after[i], clip, nextId)
                    ELSE after[i] = tracks[i]
          ELSE /\ Len(after) = Len(tracks) + 1
               /\ SubSeq(after, 1, Len(tracks)) = tracks
               /\ TypeFits(clip.type, after[Len(after)].type)
               /\ after[Len(after)].id \notin TrackIdsOf(tracks)
               /\ IdsOf(after[Len(after)].clips) = <<nextId>>
               /\ after[Len(after)].clips[1].type = clip.type

\* The audio track was deleted and placement without a target created a new
\* one at the end of the list for an audio clip, while the video track holds
\* a clip placed on the first fitting track.
C13_Witness ==
  /\ Len(tracks) = 3
  /\ tracks[2].type = "video" /\ Len(tracks[2].clips) = 1
  /\ tracks[3].type = "audio" /\ Len(tracks[3].clips) = 1
  /\ tracks[3].id >= FirstTrackUuid
  /\ moves = 0
\* --------------------------------------------------------------- C14
\* C14 as stated: with the stacking value (number of tracks - 1 -
\* trackIndex) * 1000 + indexWithinTrack, of any two clips on different
\* tracks the one on the lower track index has the strictly higher stacking
\* value, in every reachable arrangement.
C14_ZOrderDeterminism ==
  \A s1, s2 \in Slots(tracks) :
    s1[1] < s2[1] =>
      clipZIndex(tracks, s1[1], s1[2]) > clipZIndex(tracks, s2[1], s2[2])
\* --------------------------------------------------------------- C15
\* C15 as stated: a click selects the clip with the highest stacking value
\* among the clips visible at currentFrame whose bounding box, of width
\* dispW*scaleX and height dispH*scaleY around (Wc/2 + x, Hc/2 + y) with
\* dispW x dispH the contain-fitted media size, contains the click point,
\* and deselects when no such clip contains it.
MediaOf(clip, media) ==
  IF clip.type \in {"image", "video"} THEN media[clip.id]
  ELSE <<compositionWidth, compositionHeight>>

hitTest(ts, frame, point, media) ==
  LET box(clip) == getDisplayedDimensions(MediaOf(clip, media))
      hits == {sl \in Slots(ts) :
                 /\ ClipAt(ts, sl).startFrame <= frame
                 /\ frame < EndOf(ClipAt(ts, sl))
                 /\ BoxContains(ClipAt(ts, sl), point,
                                box(ClipAt(ts, sl))[1], box(ClipAt(ts, sl))[2])}
  IN IF hits = {} THEN NoId
     ELSE ClipAt(ts, CHOOSE sl \in hits :
                       \A other \in hits :
                         clipZIndex(ts, sl[1], sl[2])
                           >= clipZIndex(ts, other[1], other[2])).id

C15_HitTest ==
  \A frame \in ClickFrames, point \in ClickPoints,
     media \in [AllClipIds(tracks) -> MediaSizes] :
    handleClick(tracks, frame, point) = hitTest(tracks, frame, point, media)
\* --------------------------------------------------------------- C16
\* C16 as stated: at every frame and click point the clip hit-testing
\* selects is the clip the preview paints on top there; in each track the
\* renderer's index (after its filter and its sort by startFrame) is the
\* position in track.clips; and every clip hit-testing can return is drawn.
C16_HitTestEqualsDrawingOrder ==
  /\ \A sl \in Slots(tracks) :
       /\ Renderable(ClipAt(tracks, sl))
       /\ renderIndex(tracks[sl[1]].clips, sl[2]) = sl[2] - 1
  /\ \A frame \in ClickFrames \cup {totalFrames - 1}, point \in ClickPoints :
       handleClick(tracks, frame, point) = topDrawn(tracks, frame, point)
\* --------------------------------------------------------------- C17
\* The clip a resize gesture is about, and its stored scale.
ResizedClipNow(ts) == ClipWithId(ts, resizing[1].clipId)
InScaleRange(v) == ~RatLess(v, MinScale) /\ ~RatLess(MaxScale, v)

\* C17: whatever handle a resize gesture uses and wherever the pointer goes,
\* the scaleX and scaleY stored on every clip stay within [0.1, 3.0].
C17_ScaleRange ==
  \A cid \in AllClipIds(tracks) :
    /\ InScaleRange(ScaleOr1(ClipWithId(tracks, cid).scaleX))
    /\ InScaleRange(ScaleOr1(ClipWithId(tracks, cid).scaleY))

\* A corner gesture has brought scaleX down to the lower limit.
C17_Witness ==
  /\ resizing # None
  /\ resizing[1].resizeHandle = "top-left"
  /\ resizing[1].initialScaleX = <<1, 2>>
  /\ ResizedClipNow(tracks).scaleX = Some(MinScale)

\* --------------------------------------------------------------- C18
\* The scale the pointer asks for on the axis the handle drives, before any
\* clamp, and the scale of the other axis that keeps the aspect ratio.
RequestedScale(g, delta, media) ==
  IF g.resizeHandle \in {"right", "left"}
  THEN RatAdd(g.initialScaleX,
              IF g.resizeHandle = "left"
              THEN RatNeg(scaleDeltaOf(delta, displayedWidth(media)))
              ELSE scaleDeltaOf(delta, displayedWidth(media)))
  ELSE RatAdd(g.initialScaleY,
              IF g.resizeHandle = "top"
              THEN RatNeg(scaleDeltaOf(delta, displayedHeight(media)))
              ELSE scaleDeltaOf(delta, displayedHeight(media)))

DerivedScale(g, requested) ==
  IF g.resizeHandle \in {"right", "left"}
  THEN RatDiv(requested, g.aspectRatio)
  ELSE RatMul(requested, g.aspectRatio)

\* C18: in a side-handle gesture started with aspectRatio = scaleX / scaleY,
\* every pointer position whose requested scale and derived scale both lie
\* within [0.1, 3.0] commits scales with newScaleX / newScaleY = aspectRatio.
C18_AspectPreserved ==
  (resizing # None /\ resizing[1].resizeHandle \in SideHandles) =>
    \A delta \in PointerDeltas,
       media \in MediaChoices(ResizedClipNow(tracks)) :
      LET requested == RequestedScale(resizing[1], delta, media)
          new == handleMouseMove(resizing[1], delta, delta, media)
      IN (InScaleRange(requested)
            /\ InScaleRange(DerivedScale(resizing[1], requested)))
           => RatDiv(new[1], new[2]) = resizing[1].aspectRatio

\* A right-handle gesture started at 0.5 x 1 has committed 0.6 x 1.2.
C18_Witness ==
  /\ resizing # None
  /\ resizing[1].resizeHandle = "right"
  /\ resizing[1].aspectRatio = <<1, 2>>
  /\ resizing[1].initialScaleX = <<1, 2>>
  /\ ResizedClipNow(tracks).scaleX = Some(<<3, 5>>)
  /\ ResizedClipNow(tracks).scaleY = Some(<<6, 5>>)

\* --------------------------------------------------------------- C19
\* C19: a pointer move of a side-handle gesture with aspectRatio 1 commits
\* scaleX = scaleY; and in a right-handle gesture started at scale 1 x 1, a
\* request below 0.1 commits 0.1 x 0.1 and a request above 3 commits 3 x 3.
C19_ClampBoundary ==
  [][(resizing # None /\ resizing' = resizing
        /\ resizing[1].resizeHandle \in SideHandles
        /\ resizing[1].aspectRatio = <<1, 1>>)
       => /\ ResizedClipNow(tracks').scaleX = ResizedClipNow(tracks').scaleY
          /\ (resizing[1].resizeHandle = "right"
                /\ resizing[1].initialScaleX = <<1, 1>>)
               => \A delta \in PointerDeltas,
                     media \in MediaChoices(ResizedClipNow(tracks)) :
                    LET requested == RequestedScale(resizing[1], delta, media)
                        new == handleMouseMove(resizing[1], delta, delta, media)
                    IN /\ RatLess(requested, MinScale)
                            => new = <<MinScale, MinScale>>
                       /\ RatLess(MaxScale, requested)
                            => new = <<MaxScale, MaxScale>>]_vars

\* The right-handle gesture from 1 x 1 has committed 0.1 x 0.1.
C19_Witness ==
  /\ resizing # None
  /\ resizing[1].resizeHandle = "right"
  /\ resizing[1].initialScaleX = <<1, 1>>
  /\ resizing[1].initialScaleY = <<1, 1>>
  /\ ResizedClipNow(tracks).scaleX = Some(MinScale)
  /\ ResizedClipNow(tracks).scaleY = Some(MinScale)

\* --------------------------------------------------------------- C20
\* C20: clamping a requested scale twice gives what clamping it once gives.
C20_ClampIdempotent ==
  resizing # None =>
    \A delta \in PointerDeltas,
       media \in MediaChoices(ResizedClipNow(tracks)) :
      LET wide == RatAdd(resizing[1].initialScaleX,
                         scaleDeltaOf(delta, displayedWidth(media)))
          high == RatAdd(resizing[1].initialScaleY,
                         scaleDeltaOf(delta, displayedHeight(media)))
      IN /\ clampScale(clampScale(wide)) = clampScale(wide)
         /\ clampScale(clampScale(high)) = clampScale(high)

\* A left-handle gesture started at the upper limit has committed the upper
\* limit again for a request beyond it.
C20_Witness ==
  /\ resizing # None
  /\ resizing[1].resizeHandle = "left"
  /\ resizing[1].initialScaleX = MaxScale
  /\ resizing[1].initialScaleY = <<1, 2>>
  /\ ResizedClipNow(tracks).scaleX = Some(MaxScale)
  /\ ResizedClipNow(tracks).scaleY = Some(<<1, 2>>)

\* --------------------------------------------------------------- C21
\* The box of the given scaled size, centred on the composition centre and
\* displaced by x, y, lies inside the composition.
ScaledBoxInside(x, y, width, height) ==
  LET left == RatAdd(RatAdd(Rat(compositionWidth, 2), x),
                     RatNeg(RatMul(width, <<1, 2>>)))
      top == RatAdd(RatAdd(Rat(compositionHeight, 2), y),
                    RatNeg(RatMul(height, <<1, 2>>)))
  IN /\ ~RatLess(left, <<0, 1>>)
     /\ ~RatLess(<<compositionWidth, 1>>, RatAdd(left, width))
     /\ ~RatLess(top, <<0, 1>>)
     /\ ~RatLess(<<compositionHeight, 1>>, RatAdd(top, height))

\* C21: the position of every move commit keeps the clip's scaled bounding
\* box inside the composition, for the size in which the clip's media is
\* displayed.
C21_CommitKeepsBoxInside ==
  lastCommit # None =>
    LET clip == ClipById(tracks, lastCommit[1].clipId)
    IN \E media \in MediaChoices(clip) :
         ScaledBoxInside(lastCommit[1].x, lastCommit[1].y,
                         RatMul(displayedWidth(media), ScaleOr1(clip.scaleX)),
                         RatMul(displayedHeight(media), ScaleOr1(clip.scaleY)))

\* --------------------------------------------------------------- C22
\* The clip's scaled bounding box at its stored position lies inside the
\* composition, for the size in which its media is displayed.
ClipBoxInside(clip) ==
  \E media \in MediaChoices(clip) :
    ScaledBoxInside(<<OffsetOr0(clip.x), 1>>, <<OffsetOr0(clip.y), 1>>,
                    RatMul(displayedWidth(media), ScaleOr1(clip.scaleX)),
                    RatMul(displayedHeight(media), ScaleOr1(clip.scaleY)))

\* C22: no step of a move or a resize gesture takes the clip's scaled
\* bounding box from inside the composition to outside of it.
C22_GesturesKeepBoxInside ==
  [][ClipBoxInside(ClipById(tracks, FirstClipUuid))
       => ClipBoxInside(ClipById(tracks', FirstClipUuid))]_vars

\* --------------------------------------------------------------- C23
\* Points of an overlay rectangle: its corners, its centre and points
\* between them.
ViewportPoints(rect) ==
  {<<x, y>> : x \in {0, 1, rect[1] \div 3, rect[1] \div 2, rect[1]},
              y \in {0, 1, rect[2] \div 3, rect[2] \div 2, rect[2]}}

\* C23: in the measured viewport, wider or taller than the composition, a
\* point taken to composition space as handleClick does and back to the
\* viewport as the overlay places its box is the point itself.
C23_RoundTrip ==
  viewportDimensions # None =>
    \A p \in ViewportPoints(viewportDimensions[1]) :
      compositionToViewport(viewportToComposition(p, viewportDimensions[1]),
                            viewportDimensions)
        = <<<<p[1], 1>>, <<p[2], 1>>>>

\* A viewport wider than the composition has been measured: its letterbox is
\* 160 pixels on either side, and the point (160, 0) is the composition's
\* origin.
C23_Witness ==
  /\ viewportDimensions = Some(<<1600, 720>>)
  /\ viewportToComposition(<<160, 0>>, <<1600, 720>>) = <<<<0, 1>>, <<0, 1>>>>
  /\ viewportToComposition(<<1440, 720>>, <<1600, 720>>)
       = <<<<compositionWidth, 1>>, <<compositionHeight, 1>>>>

\* --------------------------------------------------------------- C24
\* Native sizes of images and videos, wider and taller than the composition,
\* smaller and larger than it.
NativeSizes ==
  {<<w, h>> : w \in {1, 360, 720, 1280, 1920, 4000},
              h \in {1, 360, 720, 1280, 1920, 4000}}

\* What mediaDimensions can hold for the clip, native sizes included.
LoadedMedia(clip) ==
  MediaChoices(clip)
    \cup (IF clip.src # None /\ clip.type \in {"image", "video"}
          THEN {Some(m) : m \in NativeSizes} ELSE {})

TickOf(time) == time \div FramePeriod

\* C25: while a move gesture goes on, a position commit falls into a later
\* animation frame than the commit before it, or comes updateThrottle
\* milliseconds after it or later.
C25_OneCommitPerTick ==
  [][(/\ dragging # None /\ dragging' # None
      /\ lastCommit # None /\ lastCommit' # None
      /\ lastCommit'[1].n = lastCommit[1].n + 1)
       => \/ TickOf(lastCommit'[1].at) # TickOf(lastCommit[1].at)
          \/ lastCommit'[1].at - lastCommit[1].at >= updateThrottle]_vars

\* --------------------------------------------------------------- C26
\* The clamped candidate of the gesture's last pointer move: the clip's
\* stored position plus the visual offset that move has set.
LastCandidate(clip, gesture) ==
  <<RatAdd(<<OffsetOr0(clip.x), 1>>, gesture.dragOffsetX),
    RatAdd(<<OffsetOr0(clip.y), 1>>, gesture.dragOffsetY)>>

\* C26: when a move gesture with at least one pointer move ends, the last
\* position committed is the clamped candidate of its last pointer move.
C26_ReleaseCommitsLastCandidate ==
  [][(dragging # None /\ dragging' = None /\ lastCommit' # None)
       => <<lastCommit'[1].x, lastCommit'[1].y>>
            = LastCandidate(ClipById(tracks, dragging[1].clipId),
                            dragging[1])]_vars

\* --------------------------------------------------------------- C27
\* C27: while neither a move nor a resize is active no position or scale is
\* committed, by a pointer move or by a requested animation frame, and while
\* no scrub is active no seek is made.
C27_IdleControllersAreQuiet ==
  [][/\ (dragging = None /\ dragging' = None
         /\ resizing = None /\ resizing' = None)
        => (tracks' = tracks /\ lastCommit' = lastCommit)
     /\ (scrubbing = None /\ scrubbing' = None)
        => (lastSeek' = lastSeek /\ currentFrame' = currentFrame)]_vars

\* --------------------------------------------------------------- C28
\* C28: the overlay is never resizing and dragging at the same time.
C28_OneGestureAtATime == ~(resizing # None /\ dragging # None)

\* --------------------------------------------------------------- C29
\* The frame under a pointer position: the seconds x / pixelsPerSecond past
\* the left panel times fps, rounded to the nearest frame and kept within
\* [0, totalFrames - 1]; 0 left of the panel's edge.
FrameUnder(clientX, pps) ==
  LET x == clientX - leftPanelWidth
      frames == Rat(x * TimelineFps, pps)
      nearest == (2 * frames[1] + frames[2]) \div (2 * frames[2])
  IN IF x < 0 THEN 0
     ELSE IF nearest > totalFrames - 1 THEN totalFrames - 1
     ELSE IF nearest < 0 THEN 0
     ELSE nearest

\* C29: every seek of a scrub is for the frame under a pointer position at
\* the scrub's zoom, and currentFrame is that frame once the seek is made.
C29_SeekMapsPointer ==
  [][(lastSeek' # lastSeek /\ lastSeek' # None)
       => /\ currentFrame' = lastSeek'[1].frame
          /\ \E clientX \in ScrubPositions :
               lastSeek'[1].frame
                 = FrameUnder(clientX,
                              (IF scrubbing # None THEN scrubbing
                               ELSE scrubbing')[1].pixelsPerSecond)]_vars

\* At 60 pixels per second a pointer 29 pixels past the panel, 14.5 frames,
\* has been sought as frame 15; and one far to the right as the last frame.
C29_Witness ==
  /\ scrubbing # None
  /\ scrubbing[1].pixelsPerSecond = 60
  /\ scrubbing[1].dragFrame = Some(totalFrames - 1)
  /\ lastSeek # None
  /\ lastSeek[1].frame = 15
  /\ currentFrame = 15

\* --------------------------------------------------------------- C30
\* C30: when a scrub in which the pointer has moved ends, the last seek
\* issued is for the frame under the pointer's last position.
C30_ReleaseSeeksLastPosition ==
  [][(scrubbing # None /\ scrubbing' = None /\ scrubbing[1].dragFrame # None)
       => /\ lastSeek' # None
          /\ lastSeek'[1].frame = scrubbing[1].dragFrame[1]]_vars

\* ------------------------------------------------------- the delete button
\* Largest number of zero-delay timers waiting to run.
MaxTimers == 3

\* A callback that deletes by position: when its clip is gone it deletes the
\* clip that now comes first on the timeline.
onDeleteAtPosition(clipId) ==
  LET present == \E i \in 1..Len(tracks) : FindIndex(tracks[i].clips, clipId) # 0
      filled == {i \in 1..Len(tracks) : tracks[i].clips # <<>>}
      target == IF present \/ filled = {} THEN clipId
                ELSE tracks[CHOOSE i \in filled : \A k \in filled : i <= k].clips[1].id
  IN /\ tracks' = deleteClip(tracks, target)
     /\ Rendered
     /\ isDeletingRef' = isDeletingRef \ {clipId, target}

\* onDelete of the SortableClip of clip clipId: onDeleteClip(clip.id), on the
\* arrangement as it is when the callback runs.  The clip's component is
\* gone with the clip, and its isDeletingRef with it.
onDelete(clipId) ==
  /\ tracks' = deleteClip(tracks, clipId)
  /\ Rendered
  /\ isDeletingRef' =
       {c \in isDeletingRef \ {clipId} :
          \E i \in 1..Len(tracks) : FindIndex(tracks[i].clips, c) # 0}

\* pointerdown and mousedown on the delete button of a clip on the timeline:
\* isDeletingRef is set.  The button's handler stops the propagation; where
\* the event reaches the clip's own handleMouseDown (bubbles), its
\* delete-button branch sets the flag and schedules onDelete with a
\* zero-delay timer.
DeleteMouseDown(clipId, bubbles) ==
  /\ Idle
  /\ isDeletingRef' = isDeletingRef \cup {clipId}
  /\ IF bubbles
     THEN /\ Len(deleteTimers) < MaxTimers
          /\ deleteTimers' = Append(deleteTimers, clipId)
     ELSE UNCHANGED deleteTimers
  /\ UNCHANGED <<resizeVars, isPlaying, stalled, dragVars, now, viewportDimensions, strayUpdate, scrubVars, resizing, tracks, nextId, nextTrackId, pendingTextClip, pendingFileUpload, probes, totalFrames, moves>>

\* handleDeleteMouseUp: with the flag set, onDelete is scheduled with a
\* zero-delay timer.
DeleteMouseUp(clipId) ==
  /\ Idle
  /\ clipId \in isDeletingRef
  /\ Len(deleteTimers) < MaxTimers
  /\ deleteTimers' = Append(deleteTimers, clipId)
  /\ UNCHANGED <<resizeVars, isDeletingRef, isPlaying, stalled, dragVars, now, viewportDimensions, strayUpdate, scrubVars, resizing, tracks, nextId, nextTrackId, pendingTextClip, pendingFileUpload, probes, totalFrames, moves>>

\* handleDeleteClick: onDelete at once.
DeleteClick(clipId) ==
  /\ Idle
  /\ onDelete(clipId)
  /\ UNCHANGED <<resizeVars, deleteTimers, isPlaying, stalled, dragVars, now, viewportDimensions, strayUpdate, scrubVars, resizing, nextId, nextTrackId, pendingTextClip, pendingFileUpload, probes, moves>>

\* The oldest zero-delay timer runs: onDelete of the clip whose press
\* scheduled it, whether or not the clip is still there, and the flag of its
\* component is cleared.
DeleteTimerFires ==
  /\ deleteTimers # <<>>
  /\ onDelete(Head(deleteTimers))
  /\ deleteTimers' = Tail(deleteTimers)
  /\ UNCHANGED <<resizeVars, isPlaying, stalled, dragVars, now, viewportDimensions, strayUpdate, scrubVars, resizing, nextId, nextTrackId, pendingTextClip, pendingFileUpload, probes, moves>>

\* Placing clips from the library, moving them, and pressing the delete
\* buttons of the clips on the timeline.
NextDeleteButton ==
  \/ \E asset \in LibraryAssets : HandleAddClipToTimeline(asset)
  \/ \E active \in ClipIds, over \in DropTargets : DragEndClip(active, over)
  \/ \E id \in ClipIds, bubbles \in BOOLEAN : DeleteMouseDown(id, bubbles)
  \/ \E id \in ClipIds : DeleteMouseUp(id)
  \/ \E id \in ClipIds : DeleteClick(id)
  \/ DeleteTimerFires

SpecDeleteButton == Init /\ [][NextDeleteButton]_vars

\* ---------------------------------------------------------------- playback
\* Frames the Player moves on between two looks at it: fewer than the five
\* frames the polling effect asks for, and many.
PlayerSteps == {4, 100}

\* A reset that moves the Player and the playhead and leaves playback running.
resetWithoutPause ==
  /\ playerFrame' = 0
  /\ currentFrame' = 0
  /\ UNCHANGED isPlaying

\* handleReset: the Player goes to frame 0 and so does the playhead; playback
\* is paused if it was running.
handleReset ==
  /\ playerFrame' = 0
  /\ currentFrame' = 0
  /\ isPlaying' = FALSE

\* handlePlay on the play button.  The Player (durationInFrames = totalFrames,
\* no loop) starts from its frame; asked to play on its last frame it starts
\* over from frame 0 or stays there.
HandlePlay ==
  /\ ~isPlaying
  /\ isPlaying' = TRUE
  /\ \/ playerFrame' = playerFrame
     \/ playerFrame >= totalFrames - 1 /\ playerFrame' = 0
  /\ UNCHANGED <<resizeVars, deleteVars, stalled, dragVars, now, viewportDimensions, strayUpdate, scrubbing, scrubEffect, currentFrame, lastSeek, resizing, tracks, nextId, nextTrackId, pendingTextClip, pendingFileUpload, probes, totalFrames, moves>>

\* handlePause on the pause button.
HandlePause ==
  /\ isPlaying
  /\ isPlaying' = FALSE
  /\ UNCHANGED <<resizeVars, deleteVars, stalled, dragVars, now, viewportDimensions, strayUpdate, scrubVars, resizing, tracks, nextId, nextTrackId, pendingTextClip, pendingFileUpload, probes, totalFrames, moves>>

\* handleReset on the reset button.
HandleReset ==
  /\ handleReset
  /\ UNCHANGED <<resizeVars, deleteVars, stalled, dragVars, now, viewportDimensions, strayUpdate, scrubbing, scrubEffect, lastSeek, resizing, tracks, nextId, nextTrackId, pendingTextClip, pendingFileUpload, probes, totalFrames, moves>>

\* The Player plays: its frame moves on and stops on the last frame of the
\* composition.
PlayerAdvances(n) ==
  /\ isPlaying
  /\ playerFrame < totalFrames - 1
  /\ playerFrame' = Min2(playerFrame + n, totalFrames - 1)
  /\ UNCHANGED <<resizeVars, deleteVars, stalled, dragVars, now, viewportDimensions, strayUpdate, scrubbing, scrubEffect, currentFrame, lastSeek, isPlaying, resizing, tracks, nextId, nextTrackId, pendingTextClip, pendingFileUpload, probes, totalFrames, moves>>

\* updateFrame of the polling effect on an animation frame at which
\* updateInterval milliseconds have passed: the Player's frame is read and
\* clamped, and the playhead follows it when it is five frames away or more;
\* on the last frame handleReset runs and the playhead goes to 0.  The effect
\* is mounted while isPlaying and its closure holds the totalFrames of the
\* last render.
updateFrame ==
  /\ isPlaying
  /\ LET clampedFrame == Max2(0, Min2(playerFrame, totalFrames - 1))
     IN IF Abs(currentFrame - clampedFrame) >= 5 \/ clampedFrame >= totalFrames - 1
        THEN IF clampedFrame >= totalFrames - 1
             THEN handleReset
             ELSE /\ currentFrame' = clampedFrame
                  /\ UNCHANGED <<playerFrame, isPlaying>>
        ELSE UNCHANGED <<currentFrame, playerFrame, isPlaying>>
  /\ UNCHANGED <<resizeVars, deleteVars, stalled, dragVars, now, viewportDimensions, strayUpdate, scrubbing, scrubEffect, lastSeek, resizing, tracks, nextId, nextTrackId, pendingTextClip, pendingFileUpload, probes, totalFrames, moves>>

\* Clicks on the ruler at zoom 100 (60 pixels per second): on frame 12 and
\* beyond the end of the timeline.
PlaybackClicks == {224, 5000}

\* A video track with a clip of 90 frames and a clip of 45 frames behind it,
\* the playhead at frame 0, nothing playing.
InitPlayback ==
  /\ tracks = <<[id |-> 2, type |-> "video",
                 clips |-> recalculateStartFrames(
                             <<MakeClip(FirstClipUuid, "video", 90),
                               MakeClip(FirstClipUuid + 1, "video", 45)>>)]>>
  /\ nextId = FirstClipUuid + 2
  /\ nextTrackId = FirstTrackUuid
  /\ pendingTextClip = None
  /\ pendingFileUpload = None
  /\ probes = <<>>
  /\ totalFrames = TotalFramesOf(tracks)
  /\ moves = 0
  /\ resizing = None
  /\ GesturesIdle

\* Playing, seeking by a click on the ruler and shortening the timeline.
NextPlayback ==
  \/ HandlePlay
  \/ HandlePause
  \/ HandleReset
  \/ \E n \in PlayerSteps : PlayerAdvances(n)
  \/ updateFrame
  \/ \E clientX \in PlaybackClicks : ScrubMouseDown(clientX, 60)
  \/ ScrubMouseUp
  \/ \E id \in TrackIds : HandleDeleteTrack(id)
  \/ \E id \in HandedOutClipIds : DeleteClip(id)

SpecPlayback == InitPlayback /\ [][NextPlayback]_vars

\* requestAnimationFrame calls back: the Player's own loop moves its frame
\* on while it plays, and the polling effect looks at it again.
SpecPlaybackFair ==
  /\ SpecPlayback
  /\ WF_vars(\E n \in PlayerSteps : PlayerAdvances(n))
  /\ WF_vars(updateFrame)

\* --------------------------------------------------------------- C31
\* The handle's place in composition pixels on the box the clip had when the
\* gesture started, for contain-fitted media of the given natural size.
HandleInComposition(g, clip, media) ==
  LET halfWidth == RatMul(RatMul(displayedWidth(media), g.initialScaleX),
                          <<1, 2>>)
      halfHeight == RatMul(RatMul(displayedHeight(media), g.initialScaleY),
                           <<1, 2>>)
      centreX == <<compositionWidth \div 2 + OffsetOr0(clip.x), 1>>
      centreY == <<compositionHeight \div 2 + OffsetOr0(clip.y), 1>>
  IN <<IF g.resizeHandle \in {"right", "top-right", "bottom-right"}
       THEN RatAdd(centreX, halfWidth)
       ELSE IF g.resizeHandle \in {"left", "top-left", "bottom-left"}
       THEN RatAdd(centreX, RatNeg(halfWidth))
       ELSE centreX,
       IF g.resizeHandle \in {"bottom", "bottom-left", "bottom-right"}
       THEN RatAdd(centreY, halfHeight)
       ELSE IF g.resizeHandle \in {"top", "top-left", "top-right"}
       THEN RatAdd(centreY, RatNeg(halfHeight))
       ELSE centreY>>

\* The scale that the total displacement of the pointer from that place
\* gives, both taken in composition pixels.
TotalDeltaScale(g, clip, media, rect, pointer) ==
  LET handle == HandleInComposition(g, clip, media)
      at == viewportToComposition(pointer, rect)
  IN newScaleAt(g, RatAdd(at[1], RatNeg(handle[1])),
                RatAdd(at[2], RatNeg(handle[2])), media)

\* The step commits a scale from a pointer position of the running gesture.
ResizeCommitStep ==
  /\ resizing # None /\ resizing' = resizing
  /\ lastResize # None /\ lastResize' # None
  /\ lastResize'[1].n = lastResize[1].n + 1

MissingField(clip) ==
  \/ clip.type \in {"image", "video", "audio"} /\ clip.src = None
  \/ clip.type = "text" /\ clip.text = None

VideoClipsOn(ts, tid) ==
  {sl \in Slots(ts) : ts[sl[1]].id = tid /\ ClipAt(ts, sl).type = "video"}
ProbesFor(tid) == {i \in 1..Len(probes) : probes[i] = tid}

\* C33: a video imported onto a track is in the arrangement before its
\* duration probe resolves: while a probe is in flight for a track that
\* still exists, the track holds the clip of that upload, one video clip for
\* every probe in flight (with the provisional duration, which the resolved
\* probe then replaces in place).
C33_EagerProvisionalClip ==
  \A tid \in TrackIdsOf(tracks) :
    Cardinality(VideoClipsOn(tracks, tid)) >= Cardinality(ProbesFor(tid))

\* --------------------------------------------------------------- C34
\* Largest number of probes that never answer.
MaxStalled == 1

\* The <video> element of a probe fires neither loadedmetadata nor error:
\* the load of its metadata never completes.  handleFileUpload registers the
\* two callbacks and nothing else, no timer, so from here on no code runs for
\* this upload.
ProbeStalls(i) ==
  /\ Len(stalled) < MaxStalled
  /\ stalled' = Append(stalled, probes[i])
  /\ probes' = RemoveAt(probes, i)
  /\ UNCHANGED <<resizeVars, deleteVars, isPlaying, dragVars, now, viewportDimensions, strayUpdate, scrubVars, resizing, tracks, nextId, pendingTextClip, pendingFileUpload, totalFrames, moves, nextTrackId>>

\* Uploading files onto the tracks.  A clip id is kept back for every probe
\* in flight, so that the bound on the ids never holds back an answer.
NextProbe ==
  \/ \E id \in TrackIds : HandleOpenFileUpload(id)
  \/ \E files \in FileLists :
       /\ nextId + Len(probes) + Len(files) <= MaxId + 1
       /\ HandleFileUpload(files)
  \/ FileDialogCancel
  \/ \E i \in 1..Len(probes), d \in DetectedDurations : OnLoadedMetadata(i, d)
  \/ \E i \in 1..Len(probes) : OnError(i)
  \/ \E i \in 1..Len(probes) : ProbeStalls(i)

\* A probe that answers at all answers at some time: the browser runs the
\* callback of the event it has queued.  A file chooser is closed at some
\* time.
ProbeAnswers ==
  \/ \E i \in 1..Len(probes), d \in DetectedDurations : OnLoadedMetadata(i, d)
  \/ \E i \in 1..Len(probes) : OnError(i)

SpecProbe == Init /\ [][NextProbe]_vars /\ WF_vars(ProbeAnswers)

\* The video clips in the arrangement, and the video files uploaded so far
\* (nothing removes a clip under SpecProbe).
VideosPlaced == Cardinality({sl \in Slots(tracks) : ClipAt(tracks, sl).type = "video"})
VideosUploaded == VideosPlaced + Len(probes) + Len(stalled)

\* C34: every video file uploaded to a compatible track eventually results
\* in a clip on that track, whether the probe answers, fails, reports a zero
\* duration or never completes: once k videos have been uploaded, at some
\* time k video clips are in the arrangement.
C34_UploadedVideoGetsItsClip ==
  \A k \in 1..MaxClips : (VideosUploaded = k) ~> (VideosPlaced >= k)

\* --------------------------------------------------------------- C35
\* C35: a resize that changes only the scale (onResize with the clip's
\* current duration) leaves the startFrame of every clip unchanged, on the
\* owning track in particular, so a gap left there by a positional move is
\* still there after the resize.
C35_ScaleOnlyResizeKeepsStartFrames ==
  \A cid \in AllClipIds(tracks), scale \in OverlayScales,
     pos \in OverlayPositions :
    LET after == handleClipResize(tracks, cid,
                   ClipWithId(tracks, cid).durationInFrames, scale, pos)
    IN \A other \in AllClipIds(tracks) :
         ClipWithId(after, other).startFrame
           = ClipWithId(tracks, other).startFrame

\* --------------------------------------------------------------- C36
\* The frame intervals of two clips have no frame in common.
Disjoint(a, b) == EndOf(a) <= b.startFrame \/ EndOf(b) <= a.startFrame

\* C36: in every reachable state, within each track the frame intervals
\* [startFrame, startFrame + durationInFrames) of the clips are pairwise
\* disjoint and the clip sequence is in non-decreasing startFrame order,
\* whatever mix of compaction operations and positional moves led there.
C36_NoOverlapAndOrdered ==
  \A i \in TrackIndexes(tracks) :
    LET clips == tracks[i].clips
    IN /\ \A j, k \in 1..Len(clips) : j # k => Disjoint(clips[j], clips[k])
       /\ \A j \in 1..(Len(clips) - 1) :
            clips[j].startFrame <= clips[j + 1].startFrame

\* Positional moves and compaction placements have been mixed: after two
\* moves a track holds two clips of different durations behind a gap, the
\* second starting where the first ends.
C36_Witness ==
  /\ moves = 2
  /\ \E i \in TrackIndexes(tracks) :
       /\ Len(tracks[i].clips) = 2
       /\ tracks[i].clips[1].startFrame > 0
       /\ tracks[i].clips[2].startFrame = EndOf(tracks[i].clips[1])
       /\ tracks[i].clips[1].durationInFrames
            # tracks[i].clips[2].durationInFrames

\* --------------------------------------------------------------- C37
\* C37: in every reachable state the playhead lies on the timeline,
\* 0 <= currentFrame <= totalFrames - 1, also after the timeline has been
\* shortened (a track or a clip deleted, the last clip moved) with the
\* playhead near its end.
C37_PlayheadInRange ==
  0 <= currentFrame /\ currentFrame <= totalFrames - 1

\* --------------------------------------------------------------- C38
\* C38: while playing, when the polling effect observes the Player on the
\* last frame (totalFrames - 1 or beyond), the playhead is set to frame 0
\* and playback is paused; with animation frames that keep coming (the
\* Player moves on, the effect looks again) playback that was started
\* stops at some time, and the state does not stay playing on the last
\* frame.
C38_EndOfPlayback ==
  /\ [][(isPlaying /\ playerFrame >= totalFrames - 1 /\ updateFrame)
         => (currentFrame' = 0 /\ playerFrame' = 0 /\ ~isPlaying')]_vars
  /\ (isPlaying ~> ~isPlaying)
  /\ []<>~(isPlaying /\ playerFrame >= totalFrames - 1)

\* Playback has brought the Player to the last frame of the timeline: the
\* playhead has followed it from frame 0 and is still behind, and the next
\* look of the polling effect ends playback.
C38_Witness ==
  /\ isPlaying
  /\ lastSeek = None
  /\ playerFrame = totalFrames - 1
  /\ currentFrame >= 5
  /\ currentFrame < playerFrame

\* --------------------------------------------------------------- C39
\* Identifiers that name no track and no clip of the arrangement: never
\* handed out, or of a track or clip that is gone.
UnknownIds ==
  ((1..(MaxTrackUuid + 1)) \cup (FirstClipUuid..(MaxId + 1)))
    \ (TrackIdsOf(tracks) \cup AllClipIds(tracks))

\* C39: a drop without a valid target leaves the tracks state (track order,
\* clip sequences, startFrames) as it is: a drag of an asset, a clip or a
\* track that ends over no droppable; a library asset dropped on a clip or on
\* anything else that is not a track lane; a dragged id that names no track
\* and no clip; and a placement addressed to a track id that does not exist.
C39_InvalidDropNoOp ==
  /\ \A asset \in LibraryAssets :
       DragEndAssetResult(tracks, asset, NoId, nextId) = tracks
  /\ \A cid \in AllClipIds(tracks) :
       DragEndClipResult(tracks, cid, NoId) = tracks
  /\ \A tid \in TrackIdsOf(tracks) :
       DragEndTrackResult(tracks, tid, NoId) = tracks
  /\ \A asset \in LibraryAssets, over \in AllClipIds(tracks) \cup UnknownIds :
       DragEndAssetResult(tracks, asset, over, nextId) = tracks
  /\ \A active \in UnknownIds,
        over \in TrackIdsOf(tracks) \cup AllClipIds(tracks) \cup {NoId} :
       /\ DragEndClipResult(tracks, active, over) = tracks
       /\ DragEndTrackResult(tracks, active, over) = tracks
  /\ \A asset \in LibraryAssets, tid \in UnknownIds :
       addClipToTimeline(tracks, asset, Some(tid), nextId, nextTrackId) = tracks

\* A track has been deleted, so its id names no track any more, and after a
\* positional move another track holds two clips behind a gap: a recompaction
\* or a placement would show.
C39_Witness ==
  /\ moves >= 1
  /\ \E tid \in 1..3 : tid \notin TrackIdsOf(tracks)
  /\ \E i \in TrackIndexes(tracks) :
       /\ Len(tracks[i].clips) = 2
       /\ tracks[i].clips[1].startFrame > 0

\* --------------------------------------------------------------- C40
\* The step runs the delete callback of clip cid: from the click handler or
\* from the zero-delay timer of a press of its button.
DeleteCallback(cid) ==
  \/ DeleteClick(cid)
  \/ deleteTimers # <<>> /\ Head(deleteTimers) = cid /\ DeleteTimerFires

====
